---- MODULE Spec2Model ----
(***************************************************************************)
(* GrowDash backend: CSV trade-book ingestion (csv_parser.py), the upload  *)
(* endpoint (api/trades.py) and the FIFO matching / aggregation engine     *)
(* (services/analytics.py).                                                *)
(*                                                                         *)
(* Conventions of the model                                                *)
(*   - Python None is the empty tuple <<>>, a present value v is <<v>>.     *)
(*   - Text is a TLA+ string; Len, SubSeq and \o act on it character-wise.  *)
(*   - Money (prices, pnl, strikes) is an integer number of thousandths;    *)
(*     binary floating-point error is not modelled.                        *)
(*   - A datetime is an integer number of minutes, a date a day number     *)
(*     (MinutesPerDay minutes each).                                        *)
(*   - SHA-256 is taken to be collision free: a trade_hash is modelled by  *)
(*     the string that is hashed.                                          *)
(*   - A value a definition uses several times is the argument of a local  *)
(*     operator, so that it is computed once.                              *)
(***************************************************************************)
EXTENDS Integers, Sequences, FiniteSets, TLC

VARIABLES
    \* ---- services/analytics.py: calculate_trade_analytics ----
    trades,            \* the argument: list of Trade rows
    pc,                \* position inside calculate_trade_analytics
    ordered_trades,    \* sorted(trades, key=(traded_at, id))
    idx,               \* 1-based index of the next trade of the for loop
    open_longs,        \* dict key -> deque of OpenLot
    open_shorts,       \* dict key -> deque of OpenLot
    closed_positions,  \* list of closed-position dicts
    strike_quantity,   \* dict strike string -> int
    snapshot,          \* the returned analytics dict (<<>> before return)
    match_log,         \* history: one entry per closed position (what was matched)
    opened_log,        \* history: one entry per lot ever appended to a queue
    \* ---- services/csv_parser.py: parse_tradebook_csv ----
    document,          \* the decoded file: a sequence of CSV records
    current_date,      \* what date.today() returns now
    calls,             \* history: [day, outcome] of each completed parse_tradebook_csv(document)
    \* ---- api/trades.py: upload_tradebook against the trades table ----
    uploads,           \* per request: position, parsed rows, open transaction, response
    ledger,            \* the committed rows of the trades table, in commit order
    \* ---- services/csv_parser.py: _build_trade_record ----
    hash_inputs,       \* two argument lists of _build_trade_record
    hash_records,      \* the records built from them so far
    \* ---- services/csv_parser.py: _parse_realized_statement_csv, row by row ----
    scan,              \* the local variables of the scanner and its position
    \* ---- services/analytics.py: get_trade_analytics, request after request ----
    returned           \* the snapshots returned by the calls before this one

avars == <<trades, pc, ordered_trades, idx, open_longs, open_shorts,
           closed_positions, strike_quantity, snapshot, match_log, opened_log>>

ivars == <<document, current_date, calls>>
uvars == <<uploads, ledger>>
hvars == <<hash_inputs, hash_records>>
svars == <<scan>>
cvars == <<returned>>

vars == <<avars, ivars, uvars, hvars, svars, cvars>>

None == <<>>
Some(v) == <<v>>
IsNone(o) == o = <<>>
Val(o) == o[1]

Min(a, b) == IF a <= b THEN a ELSE b
Max(a, b) == IF a >= b THEN a ELSE b
Abs(a) == IF a < 0 THEN -a ELSE a

RECURSIVE SumSeq(_)
SumSeq(s) == IF s = <<>> THEN 0 ELSE Head(s) + SumSeq(Tail(s))

\* dict.get(k, default) / defaultdict lookup
Get(d, k, default) == IF k \in DOMAIN d THEN d[k] ELSE default
Put(d, k, v) == [x \in DOMAIN d \cup {k} |-> IF x = k THEN v ELSE d[x]]

(***************************************************************************)
(* Text                                                                    *)
(***************************************************************************)
LowerChars == "abcdefghijklmnopqrstuvwxyz"
UpperChars == "ABCDEFGHIJKLMNOPQRSTUVWXYZ"
DigitChars == "0123456789"

CharAt(s, i) == SubSeq(s, i, i)

\* the case tables of str.upper() / str.lower() on ASCII letters
UpperOf == [c \in {CharAt(LowerChars, i) : i \in 1..26} |->
               CharAt(UpperChars, CHOOSE i \in 1..26 : CharAt(LowerChars, i) = c)]
LowerOf == [c \in {CharAt(UpperChars, i) : i \in 1..26} |->
               CharAt(LowerChars, CHOOSE i \in 1..26 : CharAt(UpperChars, i) = c)]

UpperChar(c) == IF c \in DOMAIN UpperOf THEN UpperOf[c] ELSE c
LowerChar(c) == IF c \in DOMAIN LowerOf THEN LowerOf[c] ELSE c

\* str.upper()
RECURSIVE Upper(_)
Upper(s) == IF Len(s) = 0 THEN "" ELSE UpperChar(CharAt(s, 1)) \o Upper(SubSeq(s, 2, Len(s)))

\* str.lower()
RECURSIVE Lower(_)
Lower(s) == IF Len(s) = 0 THEN "" ELSE LowerChar(CharAt(s, 1)) \o Lower(SubSeq(s, 2, Len(s)))

\* str.endswith / str.startswith
EndsWith(s, suffix) ==
    Len(s) >= Len(suffix) /\ SubSeq(s, Len(s) - Len(suffix) + 1, Len(s)) = suffix
StartsWith(s, prefix) ==
    Len(s) >= Len(prefix) /\ SubSeq(s, 1, Len(prefix)) = prefix

\* str(n) of a natural number
RECURSIVE NatStr(_)
NatStr(n) ==
    IF n < 10 THEN CharAt(DigitChars, n + 1)
    ELSE NatStr(n \div 10) \o CharAt(DigitChars, (n % 10) + 1)

IntStr(n) == IF n < 0 THEN "-" \o NatStr(-n) ELSE NatStr(n)

\* character classes of the regular expressions and of str.strip()
DigitSet == {CharAt(DigitChars, i) : i \in 1..10}
UpperSet == DOMAIN LowerOf
LowerSet == DOMAIN UpperOf
IsDigit(c) == c \in DigitSet
IsUpperLetter(c) == c \in UpperSet
IsWordChar(c) == c \in DigitSet \cup UpperSet \cup LowerSet \cup {"_"}
IsSpace(c) == c = " "
DigitValue(c) == (CHOOSE i \in 1..10 : CharAt(DigitChars, i) = c) - 1

\* the string without the characters outside `keep`
RECURSIVE Filter(_, _)
Filter(s, keep) ==
    IF Len(s) = 0 THEN ""
    ELSE (IF CharAt(s, 1) \in keep THEN CharAt(s, 1) ELSE "") \o Filter(SubSeq(s, 2, Len(s)), keep)

\* str.strip()
RECURSIVE LStrip(_)
LStrip(s) == IF Len(s) > 0 /\ IsSpace(CharAt(s, 1)) THEN LStrip(SubSeq(s, 2, Len(s))) ELSE s
RECURSIVE RStrip(_)
RStrip(s) == IF Len(s) > 0 /\ IsSpace(CharAt(s, Len(s))) THEN RStrip(SubSeq(s, 1, Len(s) - 1)) ELSE s
Strip(s) == RStrip(LStrip(s))

\* the length of the run of characters of `class` that starts at position i
RECURSIVE RunLength(_, _, _)
RunLength(s, i, class) ==
    IF i <= Len(s) /\ CharAt(s, i) \in class THEN 1 + RunLength(s, i + 1, class) ELSE 0

\* the value of a digit string
RECURSIVE DigitsValue(_)
DigitsValue(s) ==
    IF Len(s) = 0 THEN 0
    ELSE 10 * DigitsValue(SubSeq(s, 1, Len(s) - 1)) + DigitValue(CharAt(s, Len(s)))

\* \b at the gap before position i (1 <= i <= Len(s) + 1)
WordBoundary(s, i) ==
    LET before == i > 1 /\ IsWordChar(CharAt(s, i - 1))
        after == i <= Len(s) /\ IsWordChar(CharAt(s, i))
    IN  before # after

(***************************************************************************)
(* Numbers: a value is an integer count of thousandths                     *)
(***************************************************************************)
Unit == 1000

\* float(text) for text of the form [-]digits[.digits]; None for any other text
\* (digits after the third decimal are outside the modelled precision)
ParseDecimal(text) ==
    LET neg == Len(text) > 0 /\ CharAt(text, 1) = "-"
        body == IF neg THEN SubSeq(text, 2, Len(text)) ELSE text
        n == RunLength(body, 1, DigitSet)
        hasFrac == n < Len(body) /\ CharAt(body, n + 1) = "."
        f == IF hasFrac THEN RunLength(body, n + 2, DigitSet) ELSE 0
        whole == DigitsValue(SubSeq(body, 1, n))
        frac == SubSeq(body, n + 2, n + 1 + f) \o SubSeq("000", 1, 3 - f)
        ok == /\ n >= 1
              /\ IF hasFrac THEN f <= 3 /\ n + 1 + f = Len(body) ELSE n = Len(body)
    IN  IF ~ok THEN None
        ELSE Some((IF neg THEN -1 ELSE 1) * (whole * Unit + DigitsValue(frac)))

\* round-half-even of x / unit, for integer x (x may be negative)
RoundDiv(x, unit) ==
    LET q == x \div unit
        r == x % unit
    IN  IF 2 * r < unit THEN q
        ELSE IF 2 * r > unit THEN q + 1
        ELSE IF q % 2 = 0 THEN q ELSE q + 1

\* round(x, 2): the nearest multiple of 0.01, still counted in thousandths
Round2(x) == RoundDiv(x, 10) * 10

\* f"{x:.2f}" (a tie, x ending in 5 thousandths, is printed by Python as the
\* binary value of the float falls; no input of the model produces one)
Fmt2(x) ==
    LET c == RoundDiv(x, 10)
        a == Abs(c)
        frac == a % 100
    IN  (IF c < 0 THEN "-" ELSE "") \o NatStr(a \div 100) \o "."
        \o (IF frac < 10 THEN "0" ELSE "") \o NatStr(frac)

\* f"{x:.8f}"
Fmt8(x) ==
    LET a == Abs(x)
        frac == a % Unit
    IN  (IF x < 0 THEN "-" ELSE "") \o NatStr(a \div Unit) \o "."
        \o (IF frac < 100 THEN "0" ELSE "") \o (IF frac < 10 THEN "0" ELSE "")
        \o NatStr(frac) \o "00000"

(***************************************************************************)
(* Dates. The modelled calendar is the year 2024: a date is its day number  *)
(* in that year (1 = 2024-01-01), a datetime the minutes since the start   *)
(* of that day.                                                            *)
(***************************************************************************)
MinutesPerDay == 1440
CalendarYear == 2024
MonthDays == <<31, 29, 31, 30, 31, 30, 31, 31, 30, 31, 30, 31>>
MonthAbbr == <<"JAN", "FEB", "MAR", "APR", "MAY", "JUN",
               "JUL", "AUG", "SEP", "OCT", "NOV", "DEC">>

RECURSIVE DaysBeforeMonth(_)
DaysBeforeMonth(m) == IF m = 1 THEN 0 ELSE DaysBeforeMonth(m - 1) + MonthDays[m - 1]

MonthOfDay(d) == CHOOSE m \in 1..12 : DaysBeforeMonth(m) < d /\ d <= DaysBeforeMonth(m) + MonthDays[m]

Pad2(n) == (IF n < 10 THEN "0" ELSE "") \o NatStr(n)

\* date(y, m, d) when the day exists in the calendar, else None
MakeDate(y, m, d) ==
    IF y = CalendarYear /\ m \in 1..12 /\ d >= 1 /\ d <= MonthDays[m]
    THEN Some(DaysBeforeMonth(m) + d)
    ELSE None

\* date.isoformat()
IsoDate(d) ==
    NatStr(CalendarYear) \o "-" \o Pad2(MonthOfDay(d)) \o "-"
    \o Pad2(d - DaysBeforeMonth(MonthOfDay(d)))

DateOf(dt) == (dt \div MinutesPerDay) + 1
MinuteOfDay(dt) == dt % MinutesPerDay

\* datetime.combine(date, time(hour, minute))
Combine(d, hour, minute) == (d - 1) * MinutesPerDay + hour * 60 + minute

\* datetime.isoformat() of a datetime without seconds
IsoDateTime(dt) ==
    IsoDate(DateOf(dt)) \o "T" \o Pad2(MinuteOfDay(dt) \div 60) \o ":"
    \o Pad2(MinuteOfDay(dt) % 60) \o ":00"

\* pd.to_datetime(text, errors="coerce") for the texts YYYY-MM-DD and
\* YYYY-MM-DD HH:MM; None (NaT) for any other text
ParseDateText(text) ==
    LET wellFormed ==
            /\ Len(text) = 10
            /\ \A i \in {1, 2, 3, 4, 6, 7, 9, 10} : IsDigit(CharAt(text, i))
            /\ CharAt(text, 5) = "-" /\ CharAt(text, 8) = "-"
    IN  IF ~wellFormed THEN None
        ELSE MakeDate(DigitsValue(SubSeq(text, 1, 4)), DigitsValue(SubSeq(text, 6, 7)),
                      DigitsValue(SubSeq(text, 9, 10)))

ParseDateTimeText(text) ==
    LET AtTime(parsed_date, hour, minute) ==
            IF parsed_date = None \/ hour >= 24 \/ minute >= 60 THEN None
            ELSE Some(Combine(Val(parsed_date), hour, minute))
        timeFormed ==
            /\ Len(text) = 16
            /\ CharAt(text, 11) = " " /\ CharAt(text, 14) = ":"
            /\ \A i \in {12, 13, 15, 16} : IsDigit(CharAt(text, i))
    IN  IF Len(text) = 10 THEN AtTime(ParseDateText(text), 0, 0)
        ELSE IF ~timeFormed THEN None
        ELSE AtTime(ParseDateText(SubSeq(text, 1, 10)),
                    DigitsValue(SubSeq(text, 12, 13)), DigitsValue(SubSeq(text, 15, 16)))

(***************************************************************************)
(* services/csv_parser.py                                                  *)
(***************************************************************************)
\* COLUMN_ALIASES
ColumnAliases ==
    [order_id |-> <<"orderid", "order id", "orderno", "order number", "exchange order id">>,
     symbol |-> <<"tradingsymbol", "symbol", "instrument", "scrip", "security">>,
     exchange |-> <<"exchange">>,
     segment |-> <<"segment", "product", "product type">>,
     side |-> <<"side", "trade type", "transaction type", "type", "action">>,
     quantity |-> <<"quantity", "qty", "filled quantity", "traded qty">>,
     price |-> <<"price", "average price", "trade price", "executed price">>,
     datetime |-> <<"datetime", "trade time", "order executed time", "timestamp">>,
     date |-> <<"date", "trade date">>,
     time |-> <<"time">>,
     strike |-> <<"strike", "strike price">>,
     option_type |-> <<"option type", "optiontype", "type cepe">>,
     expiry |-> <<"expiry", "expiry date">>]

\* STATEMENT_STOP_TOKENS
StatementStopTokens ==
    {"total", "summary", "charges", "disclaimer",
     "realisedtradestradelevel", "realisedtradescontractlevel"}

\* _normalize_col(name): lower-case, strip, drop every non-alphanumeric character
NormalizeCol(name) == Filter(Strip(Lower(name)), LowerSet \cup DigitSet)

\* _safe_string(value) of a cell: "" for a missing value, else the stripped text
SafeString(value) == Strip(value)

\* the cell of a row under column number i ("" where the row is shorter)
Cell(row, i) == IF i >= 1 /\ i <= Len(row) THEN row[i] ELSE ""

\* [_normalize_col(col) for col in columns]
RECURSIVE NormalizeAll(_)
NormalizeAll(columns) ==
    IF columns = <<>> THEN <<>>
    ELSE <<NormalizeCol(Head(columns))>> \o NormalizeAll(Tail(columns))

\* the aliases of COLUMN_ALIASES, normalized
AliasKeys ==
    [order_id |-> NormalizeAll(ColumnAliases.order_id),
     symbol |-> NormalizeAll(ColumnAliases.symbol),
     exchange |-> NormalizeAll(ColumnAliases.exchange),
     segment |-> NormalizeAll(ColumnAliases.segment),
     side |-> NormalizeAll(ColumnAliases.side),
     quantity |-> NormalizeAll(ColumnAliases.quantity),
     price |-> NormalizeAll(ColumnAliases.price),
     datetime |-> NormalizeAll(ColumnAliases.datetime),
     date |-> NormalizeAll(ColumnAliases.date),
     time |-> NormalizeAll(ColumnAliases.time),
     strike |-> NormalizeAll(ColumnAliases.strike),
     option_type |-> NormalizeAll(ColumnAliases.option_type),
     expiry |-> NormalizeAll(ColumnAliases.expiry)]

\* normalized.get(key): the dict `normalized` keeps the last column of each
\* normalized name; 0 for None and for a column whose name is empty
ResolveAlias(columns, normalized, key) ==
    LET last == {i \in 1..Len(columns) : normalized[i] = key}
    IN  IF last = {} THEN 0
        ELSE LET i == CHOOSE x \in last : \A y \in last : y <= x
             IN  IF columns[i] # "" THEN i ELSE 0

\* the first alias of the list that resolves
RECURSIVE FirstResolved(_, _, _, _)
FirstResolved(columns, normalized, keys, k) ==
    IF k > Len(keys) THEN 0
    ELSE LET resolved == ResolveAlias(columns, normalized, keys[k])
         IN  IF resolved # 0 THEN resolved
             ELSE FirstResolved(columns, normalized, keys, k + 1)

\* _map_columns(columns): canonical name -> column number, 0 when unmapped
MapColumns(columns) ==
    LET Mapped(normalized) ==
            [order_id |-> FirstResolved(columns, normalized, AliasKeys.order_id, 1),
             symbol |-> FirstResolved(columns, normalized, AliasKeys.symbol, 1),
             exchange |-> FirstResolved(columns, normalized, AliasKeys.exchange, 1),
             segment |-> FirstResolved(columns, normalized, AliasKeys.segment, 1),
             side |-> FirstResolved(columns, normalized, AliasKeys.side, 1),
             quantity |-> FirstResolved(columns, normalized, AliasKeys.quantity, 1),
             price |-> FirstResolved(columns, normalized, AliasKeys.price, 1),
             datetime |-> FirstResolved(columns, normalized, AliasKeys.datetime, 1),
             date |-> FirstResolved(columns, normalized, AliasKeys.date, 1),
             time |-> FirstResolved(columns, normalized, AliasKeys.time, 1),
             strike |-> FirstResolved(columns, normalized, AliasKeys.strike, 1),
             option_type |-> FirstResolved(columns, normalized, AliasKeys.option_type, 1),
             expiry |-> FirstResolved(columns, normalized, AliasKeys.expiry, 1)]
    IN  Mapped(NormalizeAll(columns))

\* one attempt of a regular expression of _extract_option_meta at start i:
\* (\d+(?:\.\d+)?) then, when `spaces`, \s*, then one of `words`, then \b.
\* <<>> when there is no match at i, else <<[num, word]>>.
WordAt(s, j, words, spaces) ==
    LET k == IF spaces THEN j + RunLength(s, j, {" "}) ELSE j
        found == {w \in words : /\ k + Len(w) - 1 <= Len(s)
                                 /\ SubSeq(s, k, k + Len(w) - 1) = w
                                 /\ WordBoundary(s, k + Len(w))}
    IN  IF found = {} THEN <<>> ELSE <<CHOOSE w \in found : TRUE>>

NumberWordAt(s, i, words, spaces) ==
    LET n == RunLength(s, i, DigitSet)
        f == IF i + n <= Len(s) /\ CharAt(s, i + n) = "."
             THEN RunLength(s, i + n + 1, DigitSet) ELSE 0
        Whole(w) ==
            IF w # <<>> THEN <<[num |-> SubSeq(s, i, i + n - 1), word |-> w[1]]>> ELSE <<>>
        Fraction(w) ==
            IF w # <<>> THEN <<[num |-> SubSeq(s, i, i + n + f), word |-> w[1]]>>
            ELSE Whole(WordAt(s, i + n, words, spaces))
    IN  IF n = 0 THEN <<>>
        ELSE IF f >= 1 THEN Fraction(WordAt(s, i + n + 1 + f, words, spaces))
        ELSE Whole(WordAt(s, i + n, words, spaces))

\* re.search: the match at the leftmost start
SearchNumberWord(s, words, spaces) ==
    LET Leftmost(starts) ==
            IF starts = {} THEN <<>>
            ELSE NumberWordAt(s, CHOOSE i \in starts : \A j \in starts : i <= j, words, spaces)
    IN  Leftmost({i \in 1..Len(s) : NumberWordAt(s, i, words, spaces) # <<>>})

\* _extract_option_meta(symbol) -> [strike, option_type]
ExtractOptionMeta(symbol) ==
    IF symbol = "" THEN [strike |-> None, option_type |-> None]
    ELSE LET upper_symbol == Upper(symbol)
             compact_symbol == Filter(upper_symbol, {CharAt(upper_symbol, i) : i \in 1..Len(upper_symbol)} \ {" "})
             CallOrPut(match) ==
                 IF match # <<>>
                 THEN [strike |-> ParseDecimal(match[1].num),
                       option_type |-> Some(IF match[1].word = "CALL" THEN "CE" ELSE "PE")]
                 ELSE [strike |-> None, option_type |-> None]
             CeOrPe(match) ==
                 IF match # <<>>
                 THEN [strike |-> ParseDecimal(match[1].num), option_type |-> Some(match[1].word)]
                 ELSE CallOrPut(SearchNumberWord(upper_symbol, {"CALL", "PUT"}, TRUE))
         IN  CeOrPe(SearchNumberWord(compact_symbol, {"CE", "PE"}, FALSE))

\* one attempt of \b(\d{1,2})\s+([A-Z]{3})\s+(\d{2,4})\b at start i
ExpiryAt(s, i) ==
    LET Match(n, a, b, m) ==
            IF /\ WordBoundary(s, i)
               /\ n \in {1, 2} /\ a - (i + n) >= 1 /\ RunLength(s, a, UpperSet) >= 3
               /\ b - (a + 3) >= 1
               /\ m \in {2, 3, 4} /\ WordBoundary(s, b + m)
            THEN <<[day |-> DigitsValue(SubSeq(s, i, i + n - 1)),
                    month |-> SubSeq(s, a, a + 2),
                    year_raw |-> SubSeq(s, b, b + m - 1)]>>
            ELSE <<>>
        Year(n, a, b) == Match(n, a, b, RunLength(s, b, DigitSet))
        Month(n, a) == Year(n, a, a + 3 + RunLength(s, a + 3, {" "}))
        Day(n) == Month(n, i + n + RunLength(s, i + n, {" "}))
    IN  Day(RunLength(s, i, DigitSet))

\* _extract_expiry_from_symbol(symbol) -> date or None
ExtractExpiryFromSymbol(symbol) ==
    IF symbol = "" THEN None
    ELSE LET upper_symbol == Upper(symbol)
             Parsed(match) ==
                 LET year == DigitsValue(match.year_raw)
                             + (IF Len(match.year_raw) = 2 THEN 2000 ELSE 0)
                     months == {k \in 1..12 : MonthAbbr[k] = match.month}
                 IN  IF months = {} THEN None
                     ELSE MakeDate(year, CHOOSE k \in months : TRUE, match.day)
             Leftmost(starts) ==
                 IF starts = {} THEN None
                 ELSE Parsed(ExpiryAt(upper_symbol,
                                      CHOOSE i \in starts : \A j \in starts : i <= j)[1])
         IN  Leftmost({i \in 1..Len(upper_symbol) : ExpiryAt(upper_symbol, i) # <<>>})

\* a variant of ParseNumeric: an empty cell is the number 0
ParseNumeric_EmptyIsZero(value) ==
    LET text == Filter(SafeString(value), {CharAt(value, i) : i \in 1..Len(value)} \ {","})
    IN  IF text = "" THEN Some(0) ELSE ParseDecimal(text)

\* _parse_numeric(value): None for an empty or non-numeric cell
ParseNumeric(value) ==
    LET text == Filter(SafeString(value), {CharAt(value, i) : i \in 1..Len(value)} \ {","})
    IN  IF text = "" THEN None ELSE ParseDecimal(text)

\* _parse_statement_date(value)
ParseStatementDate(value) ==
    IF SafeString(value) = "" THEN None ELSE ParseDateText(SafeString(value))

\* _parse_datetime(row, column_map): the timestamp, or None where the code raises
\* ValueError("Unable to parse trade timestamp...")
ParseDatetime(row, column_map) ==
    LET date_time_col == column_map.datetime
        date_col == column_map.date
        time_col == column_map.time
        FromDate(parsed) ==
            IF parsed = None /\ date_col # 0 THEN ParseDateTimeText(Cell(row, date_col))
            ELSE parsed
        FromDateAndTime(parsed) ==
            FromDate(IF parsed = None /\ date_col # 0 /\ time_col # 0
                     THEN ParseDateTimeText(SafeString(Cell(row, date_col)) \o " "
                                            \o SafeString(Cell(row, time_col)))
                     ELSE parsed)
    IN  FromDateAndTime(IF date_time_col # 0 THEN ParseDateTimeText(Cell(row, date_time_col))
                        ELSE None)

\* x or None, for text
OrNone(o) == IF o = None \/ o = Some("") THEN None ELSE o

\* a basis that leaves the order id out
DedupeBasis_NoOrderId(order_id, symbol, side, quantity, price, traded_at) ==
    symbol \o "|" \o side \o "|" \o IntStr(quantity) \o "|" \o Fmt8(price)
    \o "|" \o IsoDateTime(traded_at)

\* dedupe_basis of _build_trade_record
DedupeBasis(order_id, symbol, side, quantity, price, traded_at) ==
    (IF OrNone(order_id) = None THEN "" ELSE Val(order_id)) \o "|" \o symbol \o "|" \o side
    \o "|" \o IntStr(quantity) \o "|" \o Fmt8(price) \o "|" \o IsoDateTime(traded_at)

\* hashlib.sha256(dedupe_basis).hexdigest(): collision free, so the text itself
TradeHash(order_id, symbol, side, quantity, price, traded_at) ==
    DedupeBasis(order_id, symbol, side, quantity, price, traded_at)

\* _build_trade_record(...)
BuildTradeRecord(symbol, side, quantity, price, traded_at, order_id, exchange, segment, strike, option_type, expiry, raw_payload) ==
    [trade_hash |-> TradeHash(order_id, symbol, side, quantity, price, traded_at),
     order_id |-> OrNone(order_id),
     symbol |-> symbol,
     exchange |-> OrNone(exchange),
     segment |-> OrNone(segment),
     side |-> side,
     quantity |-> quantity,
     price |-> price,
     traded_at |-> traded_at,
     strike |-> strike,
     option_type |-> option_type,
     expiry |-> expiry,
     raw_payload |-> raw_payload]

\* ", ".join(names)
RECURSIVE JoinComma(_)
JoinComma(names) ==
    IF names = <<>> THEN ""
    ELSE IF Len(names) = 1 THEN names[1]
    ELSE names[1] \o ", " \o JoinComma(Tail(names))

\* the subsequence of the elements of seq that lie in keep
RECURSIVE SelectIn(_, _)
SelectIn(seq, keep) ==
    IF seq = <<>> THEN <<>>
    ELSE (IF Head(seq) \in keep THEN <<Head(seq)>> ELSE <<>>) \o SelectIn(Tail(seq), keep)

\* a CSV document is its sequence of records, a record its sequence of cells; an
\* empty line is the record <<>>.  A row is blank when every cell is empty.
BlankRow(row) == \A i \in 1..Len(row) : SafeString(row[i]) = ""

\* pandas.read_csv + dropna(how="all"): the first non-blank line names the
\* columns (an empty name becomes "Unnamed: i"), blank lines are dropped, the
\* cells stay text ("" is NaN).  No columns at all is EmptyDataError.
NonBlankRows(content) ==
    SelectIn(content, {content[i] : i \in {j \in 1..Len(content) : ~BlankRow(content[j])}})

RECURSIVE ColumnNames(_, _)
ColumnNames(header, i) ==
    IF i > Len(header) THEN <<>>
    ELSE <<IF header[i] = "" THEN "Unnamed: " \o NatStr(i - 1) ELSE header[i]>>
         \o ColumnNames(header, i + 1)

DataFrameColumns(content) == ColumnNames(Head(NonBlankRows(content)), 1)

DataFrameRows(content) == Tail(NonBlankRows(content))

\* _jsonable(value) of a cell: None for NaN
Jsonable(value) == IF value = "" THEN None ELSE Some(value)

\* {col: _jsonable(row[col]) for col in dataframe.columns}, the columns up to
\* number i (pandas gives the columns distinct names)
RECURSIVE PayloadUpTo(_, _, _)
PayloadUpTo(columns, row, i) ==
    IF i = 0 THEN <<>>
    ELSE (columns[i] :> Jsonable(Cell(row, i))) @@ PayloadUpTo(columns, row, i - 1)

StandardPayload(columns, row) == PayloadUpTo(columns, row, Len(columns))

\* one iteration of the for loop of _parse_standard_tradebook:
\* [kind |-> "skip"], [kind |-> "raise"] (ValueError of _parse_datetime) or
\* [kind |-> "trade", trade |-> the record appended]
StandardRow(columns, column_map, row) ==
    LET Record(symbol, side_raw, quantity_number, price_number, traded_at, inferred, strike_number, expiry_ts) ==
            LET side == IF StartsWith(side_raw, "B") THEN "BUY"
                        ELSE IF StartsWith(side_raw, "S") THEN "SELL" ELSE side_raw
                quantity == Abs(Val(quantity_number)) \div Unit
                order_id == IF column_map.order_id # 0
                            THEN Some(SafeString(Cell(row, column_map.order_id))) ELSE None
                exchange == IF column_map.exchange # 0
                            THEN Some(SafeString(Cell(row, column_map.exchange))) ELSE None
                segment == IF column_map.segment # 0
                           THEN Some(SafeString(Cell(row, column_map.segment))) ELSE None
                strike == IF strike_number # None THEN strike_number ELSE inferred.strike
                option_type_raw == IF column_map.option_type # 0
                                   THEN Upper(SafeString(Cell(row, column_map.option_type)))
                                   ELSE ""
                option_type == IF option_type_raw \in {"CE", "PE"} THEN Some(option_type_raw)
                               ELSE inferred.option_type
                expiry == IF expiry_ts # None THEN Some(DateOf(Val(expiry_ts)))
                          ELSE ExtractExpiryFromSymbol(symbol)
            IN  IF symbol = "" THEN [kind |-> "skip"]
                ELSE IF side \notin {"BUY", "SELL"} THEN [kind |-> "skip"]
                ELSE IF quantity_number = None \/ price_number = None THEN [kind |-> "skip"]
                ELSE IF quantity <= 0 THEN [kind |-> "skip"]
                ELSE IF traded_at = None THEN [kind |-> "raise"]
                ELSE [kind |-> "trade",
                      trade |-> BuildTradeRecord(symbol, side, quantity, Val(price_number),
                                                 Val(traded_at), OrNone(order_id),
                                                 OrNone(exchange), OrNone(segment), strike,
                                                 option_type, expiry,
                                                 StandardPayload(columns, row))]
    IN  Record(SafeString(Cell(row, column_map.symbol)),
               Upper(SafeString(Cell(row, column_map.side))),
               ParseNumeric(Cell(row, column_map.quantity)),
               ParseNumeric(Cell(row, column_map.price)),
               ParseDatetime(row, column_map),
               ExtractOptionMeta(SafeString(Cell(row, column_map.symbol))),
               IF column_map.strike # 0 THEN ParseNumeric(Cell(row, column_map.strike))
               ELSE None,
               IF column_map.expiry # 0 THEN ParseDateTimeText(Cell(row, column_map.expiry))
               ELSE None)

Returned(list) == [kind |-> "returned", trades |-> list, error |-> ""]
Raised(message) == [kind |-> "raised", trades |-> <<>>, error |-> message]

TimestampError == "Unable to parse trade timestamp. Ensure CSV has Date/Time columns."
EmptyDataError == "No columns to parse from file"
MissingColumnsError(missing) ==
    "CSV is missing required columns for parsing: " \o JoinComma(missing)

\* a loop that stops at the first row without a timestamp and returns what it has
RECURSIVE StandardLoop_ReturnsPartial(_, _, _, _, _)
StandardLoop_ReturnsPartial(columns, column_map, rows, k, acc) ==
    LET Step(r) ==
            IF r.kind = "raise" THEN Returned(acc)
            ELSE StandardLoop_ReturnsPartial(columns, column_map, rows, k + 1,
                                             IF r.kind = "trade" THEN Append(acc, r.trade)
                                             ELSE acc)
    IN  IF k > Len(rows) THEN Returned(acc)
        ELSE Step(StandardRow(columns, column_map, rows[k]))

\* the for loop of _parse_standard_tradebook from row k on: the first row
\* without a timestamp abandons the list built so far
RECURSIVE StandardLoop(_, _, _, _, _)
StandardLoop(columns, column_map, rows, k, acc) ==
    LET Step(r) ==
            IF r.kind = "raise" THEN Raised(TimestampError)
            ELSE StandardLoop(columns, column_map, rows, k + 1,
                              IF r.kind = "trade" THEN Append(acc, r.trade) ELSE acc)
    IN  IF k > Len(rows) THEN Returned(acc)
        ELSE Step(StandardRow(columns, column_map, rows[k]))

\* _parse_standard_tradebook(content)
ParseStandardTradebook(content) ==
    LET Rows(columns, column_map) ==
            LET missing == SelectIn(<<"symbol", "side", "quantity", "price">>,
                                    {name \in {"symbol", "side", "quantity", "price"} :
                                        column_map[name] = 0})
            IN  IF missing # <<>> THEN Raised(MissingColumnsError(missing))
                ELSE StandardLoop(columns, column_map, DataFrameRows(content), 1, <<>>)
        Table(columns) == Rows(columns, MapColumns(columns))
    IN  IF NonBlankRows(content) = <<>> THEN Raised(EmptyDataError)
        ELSE IF DataFrameRows(content) = <<>> THEN Returned(<<>>)
        ELSE Table(DataFrameColumns(content))

\* header_map.get(key): the last cell of the header row that normalizes to key
\* (0 for None)
HeaderIndex(normalized_header, key) ==
    LET hits == {i \in 1..Len(normalized_header) : normalized_header[i] = key}
    IN  IF hits = {} THEN 0 ELSE CHOOSE i \in hits : \A j \in hits : j <= i

\* header_map.get(key, header_map.get(other))
HeaderIndexOr(normalized_header, key, other) ==
    IF HeaderIndex(normalized_header, key) # 0 THEN HeaderIndex(normalized_header, key)
    ELSE HeaderIndex(normalized_header, other)

\* the indexes of a candidate header row; is_header is the negation of the
\* `continue` test of the outer loop
StatementHeader(header_row) ==
    LET Indexes(normalized_header) ==
            [symbol_idx |-> HeaderIndex(normalized_header, "scripname"),
             quantity_idx |-> HeaderIndex(normalized_header, "quantity"),
             buy_date_idx |-> HeaderIndex(normalized_header, "buydate"),
             sell_date_idx |-> HeaderIndex(normalized_header, "selldate"),
             buy_price_idx |-> HeaderIndexOr(normalized_header, "buyprice", "avgbuyprice"),
             sell_price_idx |-> HeaderIndexOr(normalized_header, "sellprice", "avgsellprice")]
        Header(h) ==
            [idx |-> h,
             is_header |-> h.symbol_idx # 0 /\ h.quantity_idx # 0
                           /\ h.buy_price_idx # 0 /\ h.sell_price_idx # 0,
             source_format |-> IF h.buy_date_idx # 0 /\ h.sell_date_idx # 0
                               THEN "trade_level" ELSE "contract_level"]
    IN  Header(Indexes(NormalizeAll(header_row)))

\* row_payload of a statement row, with source_format and synthetic_side
PayloadKey(header_row, i) ==
    IF header_row[i] # "" THEN header_row[i] ELSE "col_" \o NatStr(i - 1)

\* the dict comprehension over the first i header cells: a later cell of the
\* same key replaces an earlier one
RECURSIVE RowPayloadUpTo(_, _, _)
RowPayloadUpTo(header_row, data_row, i) ==
    IF i = 0 THEN <<>>
    ELSE (PayloadKey(header_row, i) :> Some(Cell(data_row, i)))
         @@ RowPayloadUpTo(header_row, data_row, i - 1)

StatementPayload(header_row, data_row, source_format, synthetic_side) ==
    ("synthetic_side" :> Some(synthetic_side))
    @@ ("source_format" :> Some(source_format))
    @@ RowPayloadUpTo(header_row, data_row, Len(header_row))

\* the body of the inner while loop for one data row: "break", "skip", or the
\* two synthetic trades of the row.  today is what date.today() returns.
StatementRow(header_row, hd, data_row, today) ==
    LET h == hd.idx
        symbol == Cell(data_row, h.symbol_idx)
        Trades(symbol_token, quantity_value, buy_price_value, sell_price_value, meta, expiry, buy_parsed, sell_parsed) ==
            LET quantity == Abs(Val(quantity_value)) \div Unit
                segment == IF meta.option_type \in {Some("CE"), Some("PE")}
                           THEN Some("OPTIONS") ELSE None
                fallback_date == IF expiry # None THEN Val(expiry) ELSE today
                buy_date_value == IF buy_parsed # None THEN Val(buy_parsed)
                                  ELSE fallback_date
                sell_date_value == IF sell_parsed # None THEN Val(sell_parsed)
                                   ELSE buy_date_value
                buy_datetime == Combine(buy_date_value, 9, 15)
                sell_at_close == Combine(sell_date_value, 15, 15)
                sell_datetime == IF sell_at_close <= buy_datetime THEN buy_datetime + 1
                                 ELSE sell_at_close
            IN  IF BlankRow(data_row) THEN [kind |-> "break"]
                ELSE IF symbol = "" THEN [kind |-> "skip"]
                ELSE IF symbol_token \in {"scripname", "futures", "options"}
                THEN [kind |-> "skip"]
                ELSE IF symbol_token \in StatementStopTokens THEN [kind |-> "break"]
                ELSE IF quantity_value = None \/ buy_price_value = None
                        \/ sell_price_value = None
                THEN [kind |-> "skip"]
                ELSE IF quantity <= 0 THEN [kind |-> "skip"]
                ELSE [kind |-> "trades",
                      trades |->
                        <<BuildTradeRecord(symbol, "BUY", quantity, Val(buy_price_value),
                                           buy_datetime, None, None, segment, meta.strike,
                                           meta.option_type, expiry,
                                           StatementPayload(header_row, data_row,
                                                            hd.source_format, "BUY")),
                          BuildTradeRecord(symbol, "SELL", quantity, Val(sell_price_value),
                                           sell_datetime, None, None, segment, meta.strike,
                                           meta.option_type, expiry,
                                           StatementPayload(header_row, data_row,
                                                            hd.source_format, "SELL"))>>]
    IN  Trades(NormalizeCol(symbol),
               ParseNumeric(Cell(data_row, h.quantity_idx)),
               ParseNumeric(Cell(data_row, h.buy_price_idx)),
               ParseNumeric(Cell(data_row, h.sell_price_idx)),
               ExtractOptionMeta(symbol),
               ExtractExpiryFromSymbol(symbol),
               IF h.buy_date_idx # 0 /\ h.buy_date_idx <= Len(data_row)
               THEN ParseStatementDate(data_row[h.buy_date_idx]) ELSE None,
               IF h.sell_date_idx # 0 /\ h.sell_date_idx <= Len(data_row)
               THEN ParseStatementDate(data_row[h.sell_date_idx]) ELSE None)

\* the inner while loop: the data rows under header_row from data_index on;
\* yields the index the loop stops at and the trades appended
RECURSIVE StatementBlock(_, _, _, _, _, _)
StatementBlock(rows, header_row, hd, data_index, today, acc) ==
    LET Step(r) ==
            IF r.kind = "break" THEN [data_index |-> data_index, trades |-> acc]
            ELSE StatementBlock(rows, header_row, hd, data_index + 1, today,
                                IF r.kind = "trades" THEN acc \o r.trades ELSE acc)
    IN  IF data_index > Len(rows) THEN [data_index |-> data_index, trades |-> acc]
        ELSE Step(StatementRow(header_row, hd, rows[data_index], today))

\* the outer while loop from row_index on
RECURSIVE StatementScan(_, _, _, _)
StatementScan(rows, row_index, today, acc) ==
    LET After(block) == StatementScan(rows, block.data_index, today, acc \o block.trades)
        Under(hd) ==
            IF ~hd.is_header THEN StatementScan(rows, row_index + 1, today, acc)
            ELSE After(StatementBlock(rows, rows[row_index], hd, row_index + 1, today, <<>>))
    IN  IF row_index > Len(rows) THEN acc
        ELSE Under(StatementHeader(rows[row_index]))

\* _parse_realized_statement_csv(content), run on the day `today`
RECURSIVE SafeCells(_)
SafeCells(csv_row) ==
    IF csv_row = <<>> THEN <<>>
    ELSE <<SafeString(Head(csv_row))>> \o SafeCells(Tail(csv_row))

RECURSIVE SafeRows(_)
SafeRows(csv_rows) ==
    IF csv_rows = <<>> THEN <<>>
    ELSE <<SafeCells(Head(csv_rows))>> \o SafeRows(Tail(csv_rows))

ParseRealizedStatementCsv(content, today) == StatementScan(SafeRows(content), 1, today, <<>>)

\* a dispatcher that gives up as soon as the flat-table path raises
ParseTradebookCsv_NoFallback(content, today) ==
    LET Dispatch(standard, statement_trades) ==
            IF standard.kind = "raised" THEN Raised(standard.error)
            ELSE IF standard.trades # <<>> THEN Returned(standard.trades)
            ELSE Returned(statement_trades)
    IN  Dispatch(ParseStandardTradebook(content), ParseRealizedStatementCsv(content, today))

\* parse_tradebook_csv(file_bytes), called on the day today (the bytes are
\* taken to be valid UTF-8)
ParseTradebookCsv(content, today) ==
    LET Dispatch(standard, statement_trades) ==
            LET standard_error == IF standard.kind = "raised" THEN Some(standard.error)
                                  ELSE None
            IN  IF standard.kind = "returned" /\ standard.trades # <<>>
                THEN Returned(standard.trades)
                ELSE IF statement_trades # <<>> THEN Returned(statement_trades)
                ELSE IF standard_error # None THEN Raised(Val(standard_error))
                ELSE Returned(<<>>)
    IN  Dispatch(ParseStandardTradebook(content), ParseRealizedStatementCsv(content, today))

(***************************************************************************)
(* services/analytics.py                                                   *)
(***************************************************************************)
\* _normalize_option_type(option_type, symbol)
NormalizeOptionType(option_type, symbol) ==
    IF ~IsNone(option_type) /\ Val(option_type) # ""
          /\ Upper(Val(option_type)) \in {"CE", "PE"}
    THEN Upper(Val(option_type))
    ELSE IF EndsWith(Upper(symbol), "CE") THEN "CE"
    ELSE IF EndsWith(Upper(symbol), "PE") THEN "PE"
    ELSE "UNKNOWN"

\* a variant of InstrumentKey: the option type is left out of the key
InstrumentKey_NoOptionType(trade, option_type, strike) ==
    << trade.symbol,
       IF IsNone(strike) THEN "" ELSE Fmt2(Val(strike)),
       "",
       IF IsNone(trade.expiry) THEN "" ELSE IsoDate(Val(trade.expiry)) >>

\* _instrument_key(trade, option_type, strike)
InstrumentKey(trade, option_type, strike) ==
    << trade.symbol,
       IF IsNone(strike) THEN "" ELSE Fmt2(Val(strike)),
       option_type,
       IF IsNone(trade.expiry) THEN "" ELSE IsoDate(Val(trade.expiry)) >>

\* strike_key = f"{strike:.2f}" if strike is not None else "UNKNOWN"
StrikeKey(strike) == IF IsNone(strike) THEN "UNKNOWN" ELSE Fmt2(Val(strike))

\* the sort key (item.traded_at, item.id), compared lexicographically
SortKeyLess(a, b) ==
    \/ a.traded_at < b.traded_at
    \/ a.traded_at = b.traded_at /\ a.id < b.id

\* insertion of x into an already sorted list, after every element not greater
\* than it (sorted() is stable)
RECURSIVE InsertSorted(_, _)
InsertSorted(x, s) ==
    IF s = <<>> THEN <<x>>
    ELSE IF SortKeyLess(x, Head(s)) THEN <<x>> \o s
    ELSE <<Head(s)>> \o InsertSorted(x, Tail(s))

\* sorted(trades, key=lambda item: (item.traded_at, item.id))
RECURSIVE SortedTrades(_)
SortedTrades(s) ==
    IF s = <<>> THEN <<>>
    ELSE InsertSorted(s[Len(s)], SortedTrades(SubSeq(s, 1, Len(s) - 1)))

\* a variant of BuyPnl: the operands of the difference are swapped
BuyPnl_Swapped(lot_price, price, matched_qty) == (price - lot_price) * matched_qty

\* pnl of a BUY that closes a short lot, and of a SELL that closes a long lot
BuyPnl(lot_price, price, matched_qty) == (lot_price - price) * matched_qty
SellPnl(lot_price, price, matched_qty) == (price - lot_price) * matched_qty

\* matched_qty = min(remaining, open_lot.quantity)
MatchedQty(remaining, lot_quantity) == Min(remaining, lot_quantity)

\* holding_minutes = max(0.0, (trade.traded_at - open_lot.opened_at) minutes)
HoldingMinutes(trade, lot) == Max(0, trade.traded_at - lot.opened_at)

\* the dict appended to closed_positions
ClosedPosition(trade, pnl, option_type, strike_key, lot) ==
    [closed_at |-> trade.traded_at, pnl |-> pnl, option_type |-> option_type,
     strike |-> strike_key, holding_minutes |-> HoldingMinutes(trade, lot)]

\* history entry written with each closed position: which lot met which trade
MatchEntry(trade, key, lot, remaining, matched_qty) ==
    [key |-> key, side |-> Upper(trade.side), trade_id |-> trade.id,
     trade_price |-> trade.price, trade_at |-> trade.traded_at,
     lot_src |-> lot.src, lot_price |-> lot.price, lot_opened_at |-> lot.opened_at,
     lot_quantity |-> lot.quantity, remaining |-> remaining, matched_qty |-> matched_qty]

\* a variant of ReduceHead: the lot is popped even when part of it is left
ReduceHead_AlwaysPop(queue, matched_qty) == Tail(queue)

\* open_lot.quantity -= matched_qty; if open_lot.quantity == 0: popleft()
ReduceHead(queue, matched_qty) ==
    IF Head(queue).quantity - matched_qty = 0
    THEN Tail(queue)
    ELSE <<[Head(queue) EXCEPT !.quantity = @ - matched_qty]>> \o Tail(queue)

\* a variant of MatchShorts: a BUY closes nothing and opens a long lot
MatchShorts_ClosesNothing(shorts, remaining, trade, key, option_type, strike_key) ==
    [queue |-> shorts, remaining |-> remaining, closed |-> <<>>, log |-> <<>>]

\* the while loop of the BUY branch: match against the short queue
RECURSIVE MatchShorts(_, _, _, _, _, _)
MatchShorts(shorts, remaining, trade, key, option_type, strike_key) ==
    IF remaining > 0 /\ shorts # <<>>
    THEN LET open_lot == Head(shorts)
             matched_qty == MatchedQty(remaining, open_lot.quantity)
             pnl == BuyPnl(open_lot.price, trade.price, matched_qty)
             rest == MatchShorts(ReduceHead(shorts, matched_qty), remaining - matched_qty,
                                 trade, key, option_type, strike_key)
         IN  [queue |-> rest.queue, remaining |-> rest.remaining,
              closed |-> <<ClosedPosition(trade, pnl, option_type, strike_key, open_lot)>>
                         \o rest.closed,
              log |-> <<MatchEntry(trade, key, open_lot, remaining, matched_qty)>> \o rest.log]
    ELSE [queue |-> shorts, remaining |-> remaining, closed |-> <<>>, log |-> <<>>]

\* the while loop of the SELL branch: match against the long queue
RECURSIVE MatchLongs(_, _, _, _, _, _)
MatchLongs(longs, remaining, trade, key, option_type, strike_key) ==
    IF remaining > 0 /\ longs # <<>>
    THEN LET open_lot == Head(longs)
             matched_qty == MatchedQty(remaining, open_lot.quantity)
             pnl == SellPnl(open_lot.price, trade.price, matched_qty)
             rest == MatchLongs(ReduceHead(longs, matched_qty), remaining - matched_qty,
                                trade, key, option_type, strike_key)
         IN  [queue |-> rest.queue, remaining |-> rest.remaining,
              closed |-> <<ClosedPosition(trade, pnl, option_type, strike_key, open_lot)>>
                         \o rest.closed,
              log |-> <<MatchEntry(trade, key, open_lot, remaining, matched_qty)>> \o rest.log]
    ELSE [queue |-> longs, remaining |-> remaining, closed |-> <<>>, log |-> <<>>]

\* OpenLot(quantity=remaining, price=price, opened_at=trade.traded_at); src is
\* history: the id of the trade that opened the lot
NewLot(remaining, trade) ==
    [quantity |-> remaining, price |-> trade.price, opened_at |-> trade.traded_at,
     src |-> trade.id]

\* a variant of AppendLot: appendleft, which makes the matching LIFO
AppendLot_Front(queue, lot) == <<lot>> \o queue

\* open_longs[key].append(lot) / open_shorts[key].append(lot)
AppendLot(queue, lot) == Append(queue, lot)

\* history entry written with each appended lot
OpenEntry(key, side, lot) ==
    [key |-> key, side |-> side, quantity |-> lot.quantity, price |-> lot.price,
     opened_at |-> lot.opened_at, src |-> lot.src]

\* strike_quantity[strike_key] += qty on an insertion-ordered dict, kept as a
\* list of [strike, quantity] entries
RECURSIVE AddStrikeQuantity(_, _, _)
AddStrikeQuantity(sq, strike_key, qty) ==
    IF sq = <<>> THEN <<[strike |-> strike_key, quantity |-> qty]>>
    ELSE IF Head(sq).strike = strike_key
         THEN <<[Head(sq) EXCEPT !.quantity = @ + qty]>> \o Tail(sq)
         ELSE <<Head(sq)>> \o AddStrikeQuantity(Tail(sq), strike_key, qty)

\* the key under which the loop body files the trade
TradeKey(trade) ==
    InstrumentKey(trade, NormalizeOptionType(trade.option_type, trade.symbol), trade.strike)

\* The matching state carried through the for loop
EmptyMatching ==
    [open_longs |-> <<>>, open_shorts |-> <<>>, closed_positions |-> <<>>,
     strike_quantity |-> <<>>, match_log |-> <<>>, opened_log |-> <<>>]

\* one iteration of "for trade in ordered_trades"
ProcessOne(st, trade) ==
    LET qty == trade.quantity
        side == Upper(trade.side)
        option_type == NormalizeOptionType(trade.option_type, trade.symbol)
        strike_key == StrikeKey(trade.strike)
        key == InstrumentKey(trade, option_type, trade.strike)
        sq == AddStrikeQuantity(st.strike_quantity, strike_key, qty)
    IN  IF qty <= 0 THEN st
        ELSE IF side \notin {"BUY", "SELL"} THEN st
        ELSE IF side = "BUY"
        THEN LET m == MatchShorts(Get(st.open_shorts, key, <<>>), qty, trade, key,
                                  option_type, strike_key)
                 shorts2 == Put(st.open_shorts, key, m.queue)
             IN  [open_shorts |-> shorts2,
                  open_longs |->
                      IF m.remaining > 0
                      THEN Put(st.open_longs, key,
                               AppendLot(Get(st.open_longs, key, <<>>), NewLot(m.remaining, trade)))
                      ELSE st.open_longs,
                  closed_positions |-> st.closed_positions \o m.closed,
                  strike_quantity |-> sq,
                  match_log |-> st.match_log \o m.log,
                  opened_log |->
                      IF m.remaining > 0
                      THEN Append(st.opened_log, OpenEntry(key, side, NewLot(m.remaining, trade)))
                      ELSE st.opened_log]
        ELSE LET m == MatchLongs(Get(st.open_longs, key, <<>>), qty, trade, key,
                                 option_type, strike_key)
                 longs2 == Put(st.open_longs, key, m.queue)
             IN  [open_longs |-> longs2,
                  open_shorts |->
                      IF m.remaining > 0
                      THEN Put(st.open_shorts, key,
                               AppendLot(Get(st.open_shorts, key, <<>>), NewLot(m.remaining, trade)))
                      ELSE st.open_shorts,
                  closed_positions |-> st.closed_positions \o m.closed,
                  strike_quantity |-> sq,
                  match_log |-> st.match_log \o m.log,
                  opened_log |->
                      IF m.remaining > 0
                      THEN Append(st.opened_log, OpenEntry(key, side, NewLot(m.remaining, trade)))
                      ELSE st.opened_log]

\* closed_positions_sorted = sorted(closed_positions, key=closed_at), stable
RECURSIVE InsertByClosedAt(_, _)
InsertByClosedAt(x, s) ==
    IF s = <<>> THEN <<x>>
    ELSE IF x.closed_at < Head(s).closed_at THEN <<x>> \o s
    ELSE <<Head(s)>> \o InsertByClosedAt(x, Tail(s))

RECURSIVE SortedByClosedAt(_)
SortedByClosedAt(s) ==
    IF s = <<>> THEN <<>>
    ELSE InsertByClosedAt(s[Len(s)], SortedByClosedAt(SubSeq(s, 1, Len(s) - 1)))

\* the drawdown loop: equity += pnl; peak = max(peak, equity);
\* max_drawdown = max(max_drawdown, peak - equity)
RECURSIVE DrawdownLoop(_, _, _, _)
DrawdownLoop(positions, equity, peak, max_drawdown) ==
    IF positions = <<>> THEN max_drawdown
    ELSE LET equity2 == equity + Head(positions).pnl
             peak2 == Max(peak, equity2)
         IN  DrawdownLoop(Tail(positions), equity2, peak2, Max(max_drawdown, peak2 - equity2))

\* a variant of MaxDrawdown: the peak is never raised, the decline is measured from 0
RECURSIVE DeclineFromZero(_, _, _)
DeclineFromZero(positions, equity, max_drawdown) ==
    IF positions = <<>> THEN max_drawdown
    ELSE DeclineFromZero(Tail(positions), equity + Head(positions).pnl,
                         Max(max_drawdown, 0 - (equity + Head(positions).pnl)))

MaxDrawdown_PeakNotRaised(closed) == DeclineFromZero(SortedByClosedAt(closed), 0, 0)

\* equity = 0.0; peak = 0.0; max_drawdown = 0.0; then the loop
MaxDrawdown(closed) == DrawdownLoop(SortedByClosedAt(closed), 0, 0, 0)

\* total_pnl: the sum of the pnl of the closed positions
RECURSIVE TotalPnl(_)
TotalPnl(closed) == IF closed = <<>> THEN 0 ELSE Head(closed).pnl + TotalPnl(Tail(closed))

\* ce_vs_pe[option_type] += pnl, then one entry per option type, pnl rounded,
\* sorted by label ("CE" < "PE" < "UNKNOWN")
RECURSIVE PnlOfType(_, _)
PnlOfType(closed, option_type) ==
    IF closed = <<>> THEN 0
    ELSE (IF Head(closed).option_type = option_type THEN Head(closed).pnl ELSE 0)
         + PnlOfType(Tail(closed), option_type)

OptionLabels == <<"CE", "PE", "UNKNOWN">>

RECURSIVE CeVsPeFrom(_, _)
CeVsPeFrom(closed, i) ==
    IF i > Len(OptionLabels) THEN <<>>
    ELSE (IF \E j \in 1..Len(closed) : closed[j].option_type = OptionLabels[i]
          THEN <<[option_type |-> OptionLabels[i],
                  pnl |-> Round2(PnlOfType(closed, OptionLabels[i]))]>>
          ELSE <<>>)
         \o CeVsPeFrom(closed, i + 1)

CeVsPe(closed) == CeVsPeFrom(closed, 1)

\* sorted(strike_quantity.items(), key=quantity, reverse=True): stable, so equal
\* quantities keep their insertion order
RECURSIVE InsertByQuantityDesc(_, _)
InsertByQuantityDesc(x, s) ==
    IF s = <<>> THEN <<x>>
    ELSE IF x.quantity > Head(s).quantity THEN <<x>> \o s
    ELSE <<Head(s)>> \o InsertByQuantityDesc(x, Tail(s))

RECURSIVE SortedByQuantityDesc(_)
SortedByQuantityDesc(s) ==
    IF s = <<>> THEN <<>>
    ELSE InsertByQuantityDesc(s[Len(s)], SortedByQuantityDesc(SubSeq(s, 1, Len(s) - 1)))

RECURSIVE DropUnknown(_)
DropUnknown(s) ==
    IF s = <<>> THEN <<>>
    ELSE (IF Head(s).strike # "UNKNOWN" THEN <<Head(s)>> ELSE <<>>) \o DropUnknown(Tail(s))

TopStrikes == 10

\* a variant of MostTradedStrike: every strike is reported
MostTradedStrike_Untruncated(sq) == DropUnknown(SortedByQuantityDesc(sq))

\* most_traded_strike[:10]
MostTradedStrike(sq) ==
    LET ranked == DropUnknown(SortedByQuantityDesc(sq))
    IN  SubSeq(ranked, 1, Min(TopStrikes, Len(ranked)))

\* _build_empty_analytics(), restricted to the fields the model carries
EmptyAnalytics ==
    [summary |-> [total_profit_loss |-> 0, max_drawdown |-> 0],
     ce_vs_pe |-> <<>>,
     most_traded_strike |-> <<>>,
     trade_stats |-> [total_trades |-> 0, closed_lots |-> 0]]

\* the dict returned at the end of calculate_trade_analytics (the summary's
\* win/loss ratios, the dated pnl series and the holding-time block are left out)
BuildAnalytics(ordered, closed, sq) ==
    [summary |-> [total_profit_loss |-> Round2(TotalPnl(closed)),
                  max_drawdown |-> Round2(MaxDrawdown(closed))],
     ce_vs_pe |-> CeVsPe(closed),
     most_traded_strike |-> MostTradedStrike(sq),
     trade_stats |-> [total_trades |-> Len(ordered), closed_lots |-> Len(closed)]]

(***************************************************************************)
(* Inputs of the analytics engine                                          *)
(***************************************************************************)
MaxTrades == 3

Quantities == {1, 2}
Sides == {"BUY", "SELL"}
\* <<traded_at, price>>: the fills of InstA happen at the price of their minute
Quotes == {<<10, 100>>, <<20, 112>>}

\* instruments: [symbol, strike, option_type, expiry]
Instrument(symbol, strike, option_type, expiry) ==
    [symbol |-> symbol, strike |-> strike, option_type |-> option_type, expiry |-> expiry]

\* InstA and InstB have the same instrument key (the strike prints as "1.00", the
\* option type normalizes to CE); InstC differs from them in the option type only
InstA == Instrument("XCE", Some(1000), None, None)
InstB == Instrument("XCE", Some(1004), Some("ce"), None)
InstC == Instrument("XCE", Some(1000), Some("PE"), None)

Trade(inst, side, quantity, price, traded_at) ==
    [symbol |-> inst.symbol, strike |-> inst.strike, option_type |-> inst.option_type,
     expiry |-> inst.expiry, side |-> side, quantity |-> quantity, price |-> price,
     traded_at |-> traded_at]

TradePool ==
    {Trade(InstA, s, q, qt[2], qt[1]) : s \in Sides, q \in Quantities, qt \in Quotes}
    \cup {Trade(InstB, s, 2, 106, 20) : s \in Sides}
    \cup {Trade(InstC, s, 1, 100, 20) : s \in Sides}

\* the row with primary key i
WithId(r, i) ==
    [id |-> i, symbol |-> r.symbol, strike |-> r.strike, option_type |-> r.option_type,
     expiry |-> r.expiry, side |-> r.side, quantity |-> r.quantity, price |-> r.price,
     traded_at |-> r.traded_at]

(***************************************************************************)
(* calculate_trade_analytics as a state machine                            *)
(***************************************************************************)
\* calculate_trade_analytics has not been called
AIdle ==
    /\ trades = <<>>
    /\ pc = "idle"
    /\ ordered_trades = <<>>
    /\ idx = 0
    /\ open_longs = <<>>
    /\ open_shorts = <<>>
    /\ closed_positions = <<>>
    /\ strike_quantity = <<>>
    /\ snapshot = <<>>
    /\ match_log = <<>>
    /\ opened_log = <<>>

AInit ==
    /\ \E n \in 0..MaxTrades : \E f \in [1..n -> TradePool] :
           trades = [i \in 1..n |-> WithId(f[i], i)]
    /\ pc = "start"
    /\ ordered_trades = <<>>
    /\ idx = 0
    /\ open_longs = <<>>
    /\ open_shorts = <<>>
    /\ closed_positions = <<>>
    /\ strike_quantity = <<>>
    /\ snapshot = <<>>
    /\ match_log = <<>>
    /\ opened_log = <<>>

\* if not trades: return _build_empty_analytics()
ReturnEmpty ==
    /\ pc = "start"
    /\ trades = <<>>
    /\ snapshot' = EmptyAnalytics
    /\ pc' = "done"
    /\ UNCHANGED <<trades, ordered_trades, idx, open_longs, open_shorts,
                   closed_positions, strike_quantity, match_log, opened_log>>
    /\ UNCHANGED <<ivars, uvars, hvars, svars, cvars>>

\* ordered_trades = sorted(...); the four collections start empty
SortTrades ==
    /\ pc = "start"
    /\ trades # <<>>
    /\ ordered_trades' = SortedTrades(trades)
    /\ idx' = 1
    /\ pc' = "loop"
    /\ UNCHANGED <<trades, open_longs, open_shorts, closed_positions,
                   strike_quantity, snapshot, match_log, opened_log>>
    /\ UNCHANGED <<ivars, uvars, hvars, svars, cvars>>

MatchingState ==
    [open_longs |-> open_longs, open_shorts |-> open_shorts,
     closed_positions |-> closed_positions, strike_quantity |-> strike_quantity,
     match_log |-> match_log, opened_log |-> opened_log]

\* a variant of ProcessTrade: the quantity of a row is counted under its strike
\* before the row is tested
ProcessTrade_CountsFirst ==
    /\ pc = "loop"
    /\ idx <= Len(ordered_trades)
    /\ LET Step(st, trade) ==
               /\ open_longs' = st.open_longs
               /\ open_shorts' = st.open_shorts
               /\ closed_positions' = st.closed_positions
               /\ strike_quantity' =
                      IF trade.quantity <= 0 \/ Upper(trade.side) \notin {"BUY", "SELL"}
                      THEN AddStrikeQuantity(strike_quantity, StrikeKey(trade.strike),
                                             trade.quantity)
                      ELSE st.strike_quantity
               /\ match_log' = st.match_log
               /\ opened_log' = st.opened_log
       IN  Step(ProcessOne(MatchingState, ordered_trades[idx]), ordered_trades[idx])
    /\ idx' = idx + 1
    /\ UNCHANGED <<trades, pc, ordered_trades, snapshot>>
    /\ UNCHANGED <<ivars, uvars, hvars, svars, cvars>>

\* one iteration of the for loop over ordered_trades
ProcessTrade ==
    /\ pc = "loop"
    /\ idx <= Len(ordered_trades)
    /\ LET st == ProcessOne(MatchingState, ordered_trades[idx])
       IN  /\ open_longs' = st.open_longs
           /\ open_shorts' = st.open_shorts
           /\ closed_positions' = st.closed_positions
           /\ strike_quantity' = st.strike_quantity
           /\ match_log' = st.match_log
           /\ opened_log' = st.opened_log
    /\ idx' = idx + 1
    /\ UNCHANGED <<trades, pc, ordered_trades, snapshot>>
    /\ UNCHANGED <<ivars, uvars, hvars, svars, cvars>>

\* the aggregation after the loop, and the return
Aggregate ==
    /\ pc = "loop"
    /\ idx > Len(ordered_trades)
    /\ snapshot' = BuildAnalytics(ordered_trades, closed_positions, strike_quantity)
    /\ pc' = "done"
    /\ UNCHANGED <<trades, ordered_trades, idx, open_longs, open_shorts,
                   closed_positions, strike_quantity, match_log, opened_log>>
    /\ UNCHANGED <<ivars, uvars, hvars, svars, cvars>>

ANext == ReturnEmpty \/ SortTrades \/ ProcessTrade \/ Aggregate

(***************************************************************************)
(* Inputs of the ingestion: CSV documents of at most MaxRows records        *)
(***************************************************************************)
MaxRows == 4

\* the days on which the calls are made
Days == {MakeDate(CalendarYear, 1, 10)[1], MakeDate(CalendarYear, 1, 11)[1]}

FlatHeaderRow == <<"Symbol", "Side", "Qty", "Price", "Date", "Order Id">>
StatementHeaderRow ==
    <<"Scrip Name", "Quantity", "Buy Date", "Buy Price", "Sell Date", "Sell Price">>
\* a flat-table row with a timestamp, and one without
FlatTimedRow == <<"X 100 CE", "buy", "5", "10.5", "2024-01-02", "A1">>
FlatUntimedRow == <<"X 100 CE", "SELL", "5", "11", "-", "A2">>
\* a statement row with both dates, and one with neither (and no expiry in the name)
StatementDatedRow == <<"X 100 CE", "5", "2024-01-02", "10", "2024-01-03", "12">>
StatementUndatedRow == <<"X 100 PE", "5", "", "10", "", "12">>
EmptyLine == <<>>

RowPool ==
    {FlatHeaderRow, StatementHeaderRow, FlatTimedRow, FlatUntimedRow,
     StatementDatedRow, StatementUndatedRow, EmptyLine}

(***************************************************************************)
(* parse_tradebook_csv called on a file, and a second time on the same file *)
(***************************************************************************)
IIdle ==
    /\ document = <<>>
    /\ current_date = CHOOSE d \in Days : \A e \in Days : d <= e
    /\ calls = <<>>

IInit ==
    /\ \E n \in 0..MaxRows : \E f \in [1..n -> RowPool] : document = f
    /\ current_date = CHOOSE d \in Days : \A e \in Days : d <= e
    /\ calls = <<>>

\* the first call of parse_tradebook_csv on the document
Parse ==
    /\ calls = <<>>
    /\ calls' = <<[day |-> current_date,
                   outcome |-> ParseTradebookCsv(document, current_date)]>>
    /\ UNCHANGED <<document, current_date>>
    /\ UNCHANGED <<avars, uvars, hvars, svars, cvars>>

\* the same bytes are parsed a second time
ParseAgain ==
    /\ calls # <<>>
    /\ Tail(calls) = <<>>
    /\ calls' = Append(calls, [day |-> current_date,
                               outcome |-> ParseTradebookCsv(document, current_date)])
    /\ UNCHANGED <<document, current_date>>
    /\ UNCHANGED <<avars, uvars, hvars, svars, cvars>>

\* midnight passes between the two calls
NextDay ==
    /\ calls # <<>>
    /\ Tail(calls) = <<>>
    /\ current_date + 1 \in Days
    /\ current_date' = current_date + 1
    /\ UNCHANGED <<document, calls>>
    /\ UNCHANGED <<avars, uvars, hvars, svars, cvars>>

(***************************************************************************)
(* _build_trade_record called on two argument lists                         *)
(***************************************************************************)
HashArgs ==
    [order_id : {None, Some("A"), Some("A|B")},
     symbol : {"C", "B|C"},
     side : {"BUY", "SELL"},
     quantity : {1, 2},
     price : {10000, 10500},
     traded_at : {Combine(2, 9, 15), Combine(2, 9, 16)},
     exchange : {None, Some("NSE")}]

HIdle ==
    /\ hash_inputs = <<>>
    /\ hash_records = <<>>

HInit ==
    /\ \E a \in HashArgs : \E b \in HashArgs : hash_inputs = <<a, b>>
    /\ hash_records = <<>>

\* the next call of _build_trade_record
BuildRecord ==
    /\ Len(hash_records) < Len(hash_inputs)
    /\ LET a == hash_inputs[Len(hash_records) + 1]
       IN  hash_records' =
               Append(hash_records,
                      BuildTradeRecord(a.symbol, a.side, a.quantity, a.price, a.traded_at,
                                       a.order_id, a.exchange, None, None, None, None, <<>>))
    /\ UNCHANGED hash_inputs
    /\ UNCHANGED <<avars, ivars, uvars, svars, cvars>>

(***************************************************************************)
(* upload_tradebook: MaxUploads requests against one trades table.  The     *)
(* table is PostgreSQL's: INSERT ... ON CONFLICT (trade_hash) DO NOTHING    *)
(* inserts the rows of the statement one by one; a row whose hash is in the *)
(* table, or was inserted earlier by the same statement, is passed over; a  *)
(* row whose hash another open transaction has inserted waits until that    *)
(* transaction ends.  rowcount counts the rows inserted.                    *)
(***************************************************************************)
MaxUploads == 2

Uploaders == 1..MaxUploads

FlatOtherRow == <<"X 100 PE", "sell", "5", "9.5", "2024-01-02", "A3">>

\* the files a client sends: [filename, content]
UploadFiles ==
    {[filename |-> "T.CSV", content |-> <<FlatHeaderRow, FlatTimedRow, FlatOtherRow>>],
     [filename |-> "T.CSV", content |-> <<FlatHeaderRow, FlatOtherRow, FlatTimedRow>>],
     [filename |-> "T.CSV", content |-> <<FlatHeaderRow, FlatTimedRow, FlatTimedRow>>],
     [filename |-> "T.CSV", content |-> <<FlatHeaderRow, FlatUntimedRow>>],
     [filename |-> "T.CSV", content |-> <<FlatHeaderRow>>],
     [filename |-> "t.txt", content |-> <<FlatHeaderRow, FlatTimedRow>>]}

\* a table without the unique index
HashTaken_NoUniqueIndex(trade_hash, rows) == FALSE

\* the unique index on trades.trade_hash: is the hash among rows?
HashTaken(trade_hash, rows) == \E i \in 1..Len(rows) : rows[i].trade_hash = trade_hash

\* filename = (file.filename or "").lower(); filename.endswith(".csv")
IsCsvName(filename) == EndsWith(Lower(filename), ".csv")

UploadResponse(total_rows, imported_rows, skipped_rows) ==
    [status |-> 200, total_rows |-> total_rows,
     imported_rows |-> imported_rows, skipped_rows |-> skipped_rows]

HttpError(status) ==
    [status |-> status, total_rows |-> 0, imported_rows |-> 0, skipped_rows |-> 0]

IdleUpload ==
    [pc |-> "idle", parsed_rows |-> <<>>, pos |-> 0, pending |-> <<>>, rowcount |-> 0,
     response |-> None, all_stored |-> FALSE, concurrent |-> FALSE]

UIdle ==
    /\ uploads = [p \in Uploaders |-> IdleUpload]
    /\ ledger = <<>>

UInit == UIdle

Respond(p, response) ==
    uploads' = [uploads EXCEPT ![p].pc = "done", ![p].response = Some(response),
                               ![p].pending = <<>>]

\* line 21: the file name does not end in .csv
RejectFilename(p) ==
    /\ uploads[p].pc = "idle"
    /\ \E file \in UploadFiles :
           /\ ~IsCsvName(file.filename)
           /\ Respond(p, HttpError(400))
    /\ UNCHANGED ledger
    /\ UNCHANGED <<avars, ivars, hvars, svars, cvars>>

\* lines 24-30: parse_tradebook_csv raises
RejectParse(p) ==
    /\ uploads[p].pc = "idle"
    /\ \E file \in UploadFiles :
           /\ IsCsvName(file.filename)
           /\ ParseTradebookCsv(file.content, current_date).kind = "raised"
           /\ Respond(p, HttpError(400))
    /\ UNCHANGED ledger
    /\ UNCHANGED <<avars, ivars, hvars, svars, cvars>>

\* lines 32-33: nothing parsed
RespondEmpty(p) ==
    /\ uploads[p].pc = "idle"
    /\ \E file \in UploadFiles :
           /\ IsCsvName(file.filename)
           /\ ParseTradebookCsv(file.content, current_date) = Returned(<<>>)
           /\ Respond(p, UploadResponse(0, 0, 0))
    /\ UNCHANGED ledger
    /\ UNCHANGED <<avars, ivars, hvars, svars, cvars>>

\* line 38: db.execute(stmt) begins the transaction and the statement
BeginInsert(p) ==
    LET Begin(file, parsed) ==
            /\ IsCsvName(file.filename)
            /\ parsed.kind = "returned"
            /\ parsed.trades # <<>>
            /\ uploads' =
                   [uploads EXCEPT
                       ![p].pc = "insert",
                       ![p].parsed_rows = parsed.trades,
                       ![p].pos = 1,
                       ![p].all_stored =
                           \A i \in 1..Len(parsed.trades) :
                               \E k \in 1..Len(ledger) :
                                   ledger[k].trade_hash = parsed.trades[i].trade_hash]
    IN  /\ uploads[p].pc = "idle"
        /\ \E file \in UploadFiles :
               Begin(file, ParseTradebookCsv(file.content, current_date))
        /\ UNCHANGED ledger
        /\ UNCHANGED <<avars, ivars, hvars, svars, cvars>>

\* another request has a transaction open
OthersInFlight(p) == \E q \in Uploaders \ {p} : uploads[q].pc = "insert"

\* the hash of the row is held by a row another open transaction has inserted
HeldByOther(p, trade_hash) ==
    \E q \in Uploaders \ {p} :
        uploads[q].pc = "insert" /\ HashTaken(trade_hash, uploads[q].pending)

\* the statement inserts its next row
InsertRow(p) ==
    /\ uploads[p].pc = "insert"
    /\ uploads[p].pos <= Len(uploads[p].parsed_rows)
    /\ LET row == uploads[p].parsed_rows[uploads[p].pos]
       IN  /\ ~HashTaken(row.trade_hash, ledger)
           /\ ~HashTaken(row.trade_hash, uploads[p].pending)
           /\ ~HeldByOther(p, row.trade_hash)
           /\ uploads' =
                  [uploads EXCEPT
                      ![p].pending = Append(@, [trade_hash |-> row.trade_hash, by |-> p]),
                      ![p].rowcount = @ + 1,
                      ![p].pos = @ + 1,
                      ![p].concurrent = @ \/ OthersInFlight(p)]
    /\ UNCHANGED ledger
    /\ UNCHANGED <<avars, ivars, hvars, svars, cvars>>

\* the statement passes over its next row: ON CONFLICT DO NOTHING
SkipRow(p) ==
    /\ uploads[p].pc = "insert"
    /\ uploads[p].pos <= Len(uploads[p].parsed_rows)
    /\ LET row == uploads[p].parsed_rows[uploads[p].pos]
       IN  /\ \/ HashTaken(row.trade_hash, ledger)
              \/ HashTaken(row.trade_hash, uploads[p].pending)
           /\ uploads' =
                  [uploads EXCEPT
                      ![p].pos = @ + 1,
                      ![p].concurrent = @ \/ OthersInFlight(p)]
    /\ UNCHANGED ledger
    /\ UNCHANGED <<avars, ivars, hvars, svars, cvars>>

\* lines 40-42: execute or commit raises SQLAlchemyError (the connection is
\* lost, the transaction is the victim of a deadlock): rollback, HTTP 500
InsertFails(p) ==
    /\ uploads[p].pc = "insert"
    /\ Respond(p, HttpError(500))
    /\ UNCHANGED ledger
    /\ UNCHANGED <<avars, ivars, hvars, svars, cvars>>

\* lines 39, 44-51: db.commit() and the response
Commit(p) ==
    /\ uploads[p].pc = "insert"
    /\ uploads[p].pos > Len(uploads[p].parsed_rows)
    /\ ledger' = ledger \o uploads[p].pending
    /\ LET total_rows == Len(uploads[p].parsed_rows)
           imported_rows == uploads[p].rowcount
           skipped_rows == total_rows - imported_rows
       IN  Respond(p, UploadResponse(total_rows, imported_rows, skipped_rows))
    /\ UNCHANGED <<avars, ivars, hvars, svars, cvars>>

(***************************************************************************)
(* _parse_realized_statement_csv, one loop iteration at a time             *)
(***************************************************************************)
\* before the call; last, emitted and examined are history: what the last step
\* did, how many records it appended, and the indexes of the rows the inner
\* loop has read
IdleScan ==
    [pc |-> "idle", rows |-> <<>>, row_index |-> 0, data_index |-> 0, header_index |-> 0,
     trades |-> <<>>, last |-> "none", emitted |-> 0, examined |-> <<>>]

SIdle == scan = IdleScan

\* no call of calculate_trade_analytics has returned
CIdle == returned = <<>>

(***************************************************************************)
(* Specifications                                                          *)
(***************************************************************************)
\* the analytics engine on a list of at most MaxTrades trades
Init == AInit /\ IIdle /\ UIdle /\ HIdle /\ SIdle /\ CIdle
Next == ReturnEmpty \/ SortTrades \/ ProcessTrade \/ Aggregate
Spec == Init /\ [][Next]_vars

\* the ingestion of one document
InitIngest == AIdle /\ IInit /\ UIdle /\ HIdle /\ SIdle /\ CIdle
NextIngest == Parse \/ ParseAgain \/ NextDay
SpecIngest == InitIngest /\ [][NextIngest]_vars

\* two records built by _build_trade_record
InitHash == AIdle /\ IIdle /\ UIdle /\ HInit /\ SIdle /\ CIdle
NextHash == BuildRecord
SpecHash == InitHash /\ [][NextHash]_vars

\* concurrent uploads
InitUpload == AIdle /\ IIdle /\ UInit /\ HIdle /\ SIdle /\ CIdle
NextUpload ==
    \E p \in Uploaders :
        \/ RejectFilename(p)
        \/ RejectParse(p)
        \/ RespondEmpty(p)
        \/ BeginInsert(p)
        \/ InsertRow(p)
        \/ SkipRow(p)
        \/ InsertFails(p)
        \/ Commit(p)
SpecUpload == InitUpload /\ [][NextUpload]_vars

(***************************************************************************)
(* Properties of the matching engine and the aggregation                   *)
(***************************************************************************)
\* the trades the for loop has gone through so far
Processed == SubSeq(ordered_trades, 1, idx - 1)

\* a trade the loop does not skip
ValidTrade(t) == t.quantity > 0 /\ Upper(t.side) \in {"BUY", "SELL"}

TradeById(id) == CHOOSE t \in {trades[i] : i \in 1..Len(trades)} : t.id = id

\* the instrument key as the data model states it: symbol, strike to 2 decimals
\* or empty, normalized option type, expiry ISO date or empty
StatedKey(t) ==
    << t.symbol,
       IF t.strike = None THEN "" ELSE Fmt2(t.strike[1]),
       NormalizeOptionType(t.option_type, t.symbol),
       IF t.expiry = None THEN "" ELSE IsoDate(t.expiry[1]) >>

SeenKeys == {StatedKey(trades[i]) : i \in 1..Len(trades)}

RECURSIVE QueueQuantity(_)
QueueQuantity(q) == IF q = <<>> THEN 0 ELSE Head(q).quantity + QueueQuantity(Tail(q))

RemainingOpen(k) ==
    QueueQuantity(Get(open_longs, k, <<>>)) + QueueQuantity(Get(open_shorts, k, <<>>))

\* the sum of Value(e) over the entries e of s with Pred(e)
SumWhere(s, Pred(_), Value(_)) ==
    SumSeq([i \in 1..Len(s) |-> IF Pred(s[i]) THEN Value(s[i]) ELSE 0])

MatchedOf(k) == LET P(e) == e.key = k
                    V(e) == e.matched_qty
                IN  SumWhere(match_log, P, V)
OpenedOf(k) == LET P(e) == e.key = k
                   V(e) == e.quantity
               IN  SumWhere(opened_log, P, V)
ProcessedOf(k) == LET P(t) == ValidTrade(t) /\ StatedKey(t) = k
                      V(t) == t.quantity
                  IN  SumWhere(Processed, P, V)

OpenLotsOf(k) ==
    {Get(open_longs, k, <<>>)[i] : i \in 1..Len(Get(open_longs, k, <<>>))}
    \cup {Get(open_shorts, k, <<>>)[i] : i \in 1..Len(Get(open_shorts, k, <<>>))}

\* C1: FIFO matching. Per instrument key the closed positions come oldest open
\* lot first: of two closed positions of one key, the earlier one's lot was opened
\* no later than the later one's, no lot still open under the key is older than a
\* lot already matched, and a trade that closes several lots consumes each lot
\* entirely before it touches the next.
C1_FifoOldestLotFirst ==
    /\ \A i, j \in 1..Len(match_log) :
           (i < j /\ match_log[i].key = match_log[j].key)
               => match_log[i].lot_opened_at <= match_log[j].lot_opened_at
    /\ \A i \in 1..Len(match_log) : \A lot \in OpenLotsOf(match_log[i].key) :
           match_log[i].lot_opened_at <= lot.opened_at
    /\ \A i \in 1..Len(match_log) - 1 :
           match_log[i].trade_id = match_log[i + 1].trade_id
               => /\ match_log[i].matched_qty = match_log[i].lot_quantity
                  /\ match_log[i + 1].remaining
                         = match_log[i].remaining - match_log[i].lot_quantity

\* C1 witness: one SELL has closed the whole of an older long lot and then part
\* of a younger one, which stays open with the rest (BUY, BUY, SELL).
C1_Witness ==
    \E i \in 1..Len(match_log) - 1 :
        /\ match_log[i].trade_id = match_log[i + 1].trade_id
        /\ match_log[i].side = "SELL"
        /\ match_log[i].lot_opened_at < match_log[i + 1].lot_opened_at
        /\ match_log[i + 1].matched_qty < match_log[i + 1].lot_quantity
        /\ Get(open_longs, match_log[i].key, <<>>) # <<>>
        /\ Head(open_longs[match_log[i].key]).src = match_log[i + 1].lot_src
        /\ Head(open_longs[match_log[i].key]).quantity
               = match_log[i + 1].lot_quantity - match_log[i + 1].matched_qty

\* C2: quantity conservation. After every prefix of the ordered trades, for each
\* instrument key the quantity ever placed into open lots equals the quantity
\* matched out of lots plus the quantity still in the key's two queues, and the
\* quantity of the processed valid trades equals twice the matched quantity plus
\* the remaining open quantity.
C2_QuantityConservation ==
    \A k \in SeenKeys \cup DOMAIN open_longs \cup DOMAIN open_shorts :
        /\ OpenedOf(k) = MatchedOf(k) + RemainingOpen(k)
        /\ ProcessedOf(k) = 2 * MatchedOf(k) + RemainingOpen(k)

\* C2 witness: mid-loop, a key has both matched quantity and open quantity left
\* while a second key holds an open lot of its own.
C2_Witness ==
    /\ pc = "loop"
    /\ \E k1, k2 \in SeenKeys :
           /\ k1 # k2
           /\ MatchedOf(k1) > 0
           /\ RemainingOpen(k1) > 0
           /\ RemainingOpen(k2) > 0

\* C3: realized pnl. Every closed position's pnl is (sell price - buy price) x
\* matched quantity, the matched quantity being min(remaining trade quantity,
\* oldest lot quantity); what is left of a trade once the opposite queue is
\* exhausted opens exactly one lot, on the trade's own side, at its price and time.
C3_RealizedPnl ==
    /\ Len(closed_positions) = Len(match_log)
    /\ \A i \in 1..Len(match_log) :
           LET e == match_log[i]
           IN  /\ e.matched_qty = (IF e.remaining <= e.lot_quantity
                                   THEN e.remaining ELSE e.lot_quantity)
               /\ e.side = "SELL"
                      => closed_positions[i].pnl = (e.trade_price - e.lot_price) * e.matched_qty
               /\ e.side = "BUY"
                      => closed_positions[i].pnl = (e.lot_price - e.trade_price) * e.matched_qty
               /\ (i = 1 \/ match_log[i - 1].trade_id # e.trade_id)
                      => e.remaining = TradeById(e.trade_id).quantity
               /\ e.trade_price = TradeById(e.trade_id).price
               /\ e.lot_price = TradeById(e.lot_src).price
    /\ \A n \in 1..Len(Processed) :
           LET t == Processed[n]
               matched == LET P(e) == e.trade_id = t.id
                              V(e) == e.matched_qty
                          IN  SumWhere(match_log, P, V)
               left == t.quantity - matched
               opens == {i \in 1..Len(opened_log) : opened_log[i].src = t.id}
           IN  ValidTrade(t) =>
                 /\ left >= 0
                 /\ left = 0 => opens = {}
                 /\ left > 0 =>
                      /\ Cardinality(opens) = 1
                      /\ \A i \in opens :
                            opened_log[i] = [key |-> StatedKey(t), side |-> Upper(t.side),
                                             quantity |-> left, price |-> t.price,
                                             opened_at |-> t.traded_at, src |-> t.id]
                      /\ n = Len(Processed) =>
                            LET opposite == IF Upper(t.side) = "BUY" THEN open_shorts
                                            ELSE open_longs
                                own == IF Upper(t.side) = "BUY" THEN open_longs
                                       ELSE open_shorts
                            IN  /\ Get(opposite, StatedKey(t), <<>>) = <<>>
                                /\ own[StatedKey(t)][Len(own[StatedKey(t)])]
                                      = [quantity |-> left, price |-> t.price,
                                         opened_at |-> t.traded_at, src |-> t.id]

\* C3 witness: a BUY has closed a short lot at a loss and its leftover quantity
\* has opened a long lot.
C3_Witness ==
    \E i \in 1..Len(match_log) :
        /\ match_log[i].side = "BUY"
        /\ closed_positions[i].pnl < 0
        /\ \E j \in 1..Len(opened_log) :
              /\ opened_log[j].src = match_log[i].trade_id
              /\ opened_log[j].side = "BUY"

\* C4: a closed position is only formed between an open lot and a closing trade
\* with equal instrument keys; trades on different keys never reduce each
\* other's lots.
C4_SameKeyOnly ==
    /\ \A i \in 1..Len(match_log) :
           StatedKey(TradeById(match_log[i].lot_src)) = StatedKey(TradeById(match_log[i].trade_id))
    /\ \A k \in DOMAIN open_longs : \A i \in 1..Len(open_longs[k]) :
           StatedKey(TradeById(open_longs[k][i].src)) = k
    /\ \A k \in DOMAIN open_shorts : \A i \in 1..Len(open_shorts[k]) :
           StatedKey(TradeById(open_shorts[k][i].src)) = k

\* C4 witness: a lot of one key is still open, untouched, after a later opposite
\* trade on another key (same symbol, strike and expiry) was processed, and
\* a closed position joins two trades whose stored fields differ but whose keys
\* are equal.
C4_Witness ==
    /\ \E i \in 1..Len(match_log) :
           /\ TradeById(match_log[i].lot_src).option_type
                  # TradeById(match_log[i].trade_id).option_type
           /\ TradeById(match_log[i].lot_src).strike
                  # TradeById(match_log[i].trade_id).strike
    /\ \E k \in DOMAIN open_longs : \E n \in 1..Len(Processed) :
           /\ open_longs[k] # <<>>
           /\ ValidTrade(Processed[n])
           /\ Upper(Processed[n].side) = "SELL"
           /\ StatedKey(Processed[n]) # k
           /\ Processed[n].symbol = k[1]
           /\ Head(open_longs[k]).quantity = TradeById(Head(open_longs[k]).src).quantity
           /\ SortKeyLess(TradeById(Head(open_longs[k]).src), Processed[n])

\* cumulative realized pnl after the first n closed positions
RECURSIVE EquityAfter(_, _)
EquityAfter(closed, n) == IF n = 0 THEN 0 ELSE EquityAfter(closed, n - 1) + closed[n].pnl

\* the largest peak-to-trough decline of the equity curve of `closed`
LargestDecline(closed) ==
    LET declines == {EquityAfter(closed, i) - EquityAfter(closed, j) :
                        <<i, j>> \in {p \in (0..Len(closed)) \X (0..Len(closed)) : p[1] <= p[2]}}
    IN  CHOOSE d \in declines : \A e \in declines : e <= d

\* C5: max drawdown. The reported max_drawdown is never negative and is the
\* largest peak-to-trough decline of cumulative realized pnl over the closed
\* positions in closed-at order (the order of the list, which is non-decreasing
\* in closed_at), rounded to 2 decimals as every output; 0 without closed
\* positions.
C5_MaxDrawdown ==
    pc = "done" =>
        /\ snapshot.summary.max_drawdown >= 0
        /\ \A i \in 1..Len(closed_positions) - 1 :
               closed_positions[i].closed_at <= closed_positions[i + 1].closed_at
        /\ snapshot.summary.max_drawdown = Round2(LargestDecline(closed_positions))
        /\ closed_positions = <<>> => snapshot.summary.max_drawdown = 0

\* C5 witness: the equity curve rose above zero and then fell below that peak, so
\* the reported drawdown is positive and is measured from the peak.
C5_Witness ==
    /\ pc = "done"
    /\ snapshot.summary.max_drawdown > 0
    /\ \E i, j \in 1..Len(closed_positions) :
           /\ i < j
           /\ EquityAfter(closed_positions, i) > 0
           /\ EquityAfter(closed_positions, j) < EquityAfter(closed_positions, i)
           /\ EquityAfter(closed_positions, j) >= 0

(***************************************************************************)
(* Properties of the ingestion                                             *)
(***************************************************************************)
\* a record made by the statement-block path carries the synthetic side
IsStatementRecord(r) == "synthetic_side" \in DOMAIN r.raw_payload

\* the text has the character c
HasChar(text, c) == \E i \in 1..Len(text) : CharAt(text, i) = c

\* the call that has just returned (every call is the last one in the state
\* it returns to)
LastCall == calls[Len(calls)]

\* what each path alone makes of the document on a given day
FlatOutcome == ParseStandardTradebook(document)
StatementTrades(day) == ParseRealizedStatementCsv(document, day)
HasTrades(flat) == flat.kind = "returned" /\ flat.trades # <<>>

\* C6: the dispatcher returns the flat-table list when that path yields a trade
\* (no statement record is in it, whatever the statement path would yield);
\* otherwise it returns the statement-block list when that is non-empty; when
\* both yield nothing it raises the flat-table error if there was one and
\* returns the empty list if there was none.
C6_Dispatcher ==
    calls # <<>> =>
        LET flat == FlatOutcome
            out == LastCall.outcome
            statement == StatementTrades(LastCall.day)
        IN  IF HasTrades(flat)
            THEN /\ out = Returned(flat.trades)
                 /\ \A k \in 1..Len(out.trades) : ~IsStatementRecord(out.trades[k])
            ELSE IF statement # <<>> THEN out = Returned(statement)
            ELSE IF flat.kind = "raised" THEN out = Raised(flat.error)
            ELSE out = Returned(<<>>)

\* both paths would yield trades, and the call returned the flat-table list
C6_Witness ==
    /\ calls # <<>>
    /\ HasTrades(FlatOutcome)
    /\ StatementTrades(calls[1].day) # <<>>
    /\ calls[1].outcome.trades = FlatOutcome.trades

\* the data rows of the flat table that pass the symbol, side, quantity and
\* price checks but whose date text is no timestamp
UntimedRows ==
    IF NonBlankRows(document) = <<>> THEN {}
    ELSE LET columns == DataFrameColumns(document)
             cm == MapColumns(columns)
             rows == DataFrameRows(document)
             side_of(row) == Upper(Strip(Cell(row, cm.side)))
             amount(row) == ParseNumeric(Cell(row, cm.quantity))
         IN  IF cm.symbol = 0 \/ cm.side = 0 \/ cm.quantity = 0 \/ cm.price = 0 THEN {}
             ELSE {k \in 1..Len(rows) :
                     /\ Strip(Cell(rows[k], cm.symbol)) # ""
                     /\ Len(side_of(rows[k])) > 0
                     /\ CharAt(side_of(rows[k]), 1) \in {"B", "S"}
                     /\ amount(rows[k]) # None
                     /\ ParseNumeric(Cell(rows[k], cm.price)) # None
                     /\ Abs(Val(amount(rows[k]))) >= Unit
                     /\ ParseDateTimeText(Cell(rows[k], cm.datetime)) = None
                     /\ ParseDateTimeText(Strip(Cell(rows[k], cm.date)) \o " "
                                          \o Strip(Cell(rows[k], cm.time))) = None
                     /\ ParseDateTimeText(Cell(rows[k], cm.date)) = None}

\* the flat-table records of the rows before the first of the rows `untimed`
PartialFlatList(untimed) ==
    LET first == CHOOSE k \in untimed : \A j \in untimed : k <= j
        columns == DataFrameColumns(document)
    IN  StandardLoop(columns, MapColumns(columns),
                     SubSeq(DataFrameRows(document), 1, first - 1), 1, <<>>).trades

\* C7: when a row that passes the symbol/side/quantity/price checks has no
\* parsable timestamp, the call ends in an error or returns the complete
\* statement-block list: never the flat-table rows parsed before that row, and
\* never a flat-table record at all.  In every case the list returned is the
\* whole list of one path, never a mixture of the two.
C7_NoPartialFlatResult ==
    calls # <<>> =>
        LET untimed == UntimedRows
            flat == FlatOutcome
            out == LastCall.outcome
            statement == StatementTrades(LastCall.day)
        IN  /\ untimed # {} =>
                  /\ \/ out.kind = "raised"
                     \/ statement # <<>> /\ out = Returned(statement)
                  /\ PartialFlatList(untimed) # <<>> => out.trades # PartialFlatList(untimed)
                  /\ \A k \in 1..Len(out.trades) : IsStatementRecord(out.trades[k])
            /\ out.kind = "returned" =>
                  /\ \/ \A k \in 1..Len(out.trades) : IsStatementRecord(out.trades[k])
                     \/ \A k \in 1..Len(out.trades) : ~IsStatementRecord(out.trades[k])
                  /\ \/ flat.kind = "returned" /\ out.trades = flat.trades
                     \/ out.trades = statement

\* rows were parsed before the row without a timestamp, and the call raised
C7_Witness ==
    /\ calls # <<>>
    /\ UntimedRows # {}
    /\ PartialFlatList(UntimedRows) # <<>>
    /\ calls[1].outcome = Raised(TimestampError)

\* C10 (as claimed): every call of parse_tradebook_csv on the same document
\* has the same outcome, whatever the day of the call.
C10_SameOutcomeWhenever ==
    \A i \in 1..Len(calls) : \A j \in 1..Len(calls) : calls[i].outcome = calls[j].outcome

(***************************************************************************)
(* Properties of the dedup hash                                            *)
(***************************************************************************)
SixFields(r) == <<r.order_id, r.symbol, r.side, r.quantity, r.price, r.traded_at>>

\* no order id of the records has a "|", or no symbol has
PipeFree(r1, r2) ==
    \/ \A r \in {r1, r2} : r.order_id = None \/ ~HasChar(Val(r.order_id), "|")
    \/ \A r \in {r1, r2} : ~HasChar(r.symbol, "|")

\* C9 (as claimed): two records equal in (order_id, symbol, side, quantity,
\* price, traded_at) have the same hash whatever their other fields, and two
\* records that differ in one of the six have different hashes.
C9_HashOfExactlySixFields ==
    Len(hash_records) = 2 =>
        LET r1 == hash_records[1]
            r2 == hash_records[2]
        IN  (SixFields(r1) = SixFields(r2)) <=> (r1.trade_hash = r2.trade_hash)

\* C9 (amended): two records equal in the six fields have the same hash
\* whatever their other fields; two records that differ in one of the six have
\* different hashes provided no order id of the two contains "|" or no symbol
\* of the two does.
C9_HashOfSixFieldsPipeFree ==
    Len(hash_records) = 2 =>
        LET r1 == hash_records[1]
            r2 == hash_records[2]
        IN  /\ SixFields(r1) = SixFields(r2) => r1.trade_hash = r2.trade_hash
            /\ (SixFields(r1) # SixFields(r2) /\ PipeFree(r1, r2)) =>
                  r1.trade_hash # r2.trade_hash

\* two records that differ only in the order id, one of them with a "|" in it
C9_Witness ==
    /\ Len(hash_records) = 2
    /\ hash_records[1].order_id = Some("A|B")
    /\ hash_records[2].order_id = Some("A")
    /\ hash_records[1].symbol = "C"
    /\ hash_records[2].symbol = "C"
    /\ hash_records[1].side = hash_records[2].side
    /\ hash_records[1].quantity = hash_records[2].quantity
    /\ hash_records[1].price = hash_records[2].price
    /\ hash_records[1].traded_at = hash_records[2].traded_at
    /\ hash_records[1].exchange # hash_records[2].exchange
    /\ hash_records[1].trade_hash # hash_records[2].trade_hash

(***************************************************************************)
(* Properties of the upload                                                *)
(***************************************************************************)
Succeeded(p) ==
    /\ uploads[p].pc = "done"
    /\ uploads[p].response # None
    /\ Val(uploads[p].response).status = 200

\* the number of committed rows that request p inserted
RowsBy(p) == Cardinality({k \in 1..Len(ledger) : ledger[k].by = p})

\* C8: no two rows of the table share a trade_hash, whatever the interleaving
\* of the requests; every request answered 200 reports imported_rows +
\* skipped_rows = total_rows with 0 <= imported_rows <= total_rows, where
\* imported_rows is the number of rows it added to the table; and a request
\* all of whose records were in the table when it began imports 0 rows.
C8_NoDuplicateLedgerRows ==
    /\ \A i \in 1..Len(ledger) : \A j \in 1..Len(ledger) :
           i # j => ledger[i].trade_hash # ledger[j].trade_hash
    /\ \A p \in Uploaders :
           Succeeded(p) =>
               LET response == Val(uploads[p].response)
               IN  /\ response.imported_rows + response.skipped_rows = response.total_rows
                   /\ response.imported_rows >= 0
                   /\ response.imported_rows <= response.total_rows
                   /\ response.total_rows = Len(uploads[p].parsed_rows)
                   /\ response.imported_rows = RowsBy(p)
                   /\ uploads[p].all_stored => response.imported_rows = 0

\* two requests overlapped; both were answered 200; one of them found rows of
\* its file taken and skipped them
C8_Witness ==
    \E p \in Uploaders : \E q \in Uploaders \ {p} :
        /\ Succeeded(p)
        /\ Succeeded(q)
        /\ uploads[p].concurrent
        /\ Val(uploads[p].response).skipped_rows >= 1
        /\ Val(uploads[q].response).imported_rows >= 1
        /\ Len(ledger) >= 2

(***************************************************************************)
(* The flat-table path on tables of at most MaxFlatRows data rows           *)
(***************************************************************************)
MaxFlatRows == 3

\* data rows under FlatHeaderRow: the order id names the row
FlatNoSymbolRow == <<" ", "buy", "5", "10.5", "2024-01-02", "N1">>
FlatHoldRow == <<"X 100 CE", "hold", "5", "10.5", "2024-01-02", "N2">>
FlatBadQuantityRow == <<"X 100 CE", "buy", "five", "10.5", "2024-01-02", "N3">>
FlatBadPriceRow == <<"X 100 CE", "buy", "5", "", "2024-01-02", "N4">>
FlatFractionRow == <<"X 100 CE", "sell", "0.5", "10.5", "2024-01-02", "N5">>
FlatNegativeQuantityRow == <<"X 100 CE", " Sold ", "-5", "11", "2024-01-02", "A4">>
FlatNegativePriceRow == <<"X 100 CE", "B", "2.9", "-10.5", "2024-01-02", "A5">>

FlatRowPool ==
    {FlatTimedRow, FlatNoSymbolRow, FlatHoldRow, FlatBadQuantityRow, FlatBadPriceRow,
     FlatFractionRow, FlatNegativeQuantityRow, FlatNegativePriceRow}

\* a file with the flat header and up to MaxFlatRows data rows
FInit ==
    /\ \E n \in 0..MaxFlatRows : \E f \in [1..n -> FlatRowPool] :
           document = <<FlatHeaderRow>> \o f
    /\ current_date = CHOOSE d \in Days : \A e \in Days : d <= e
    /\ calls = <<>>

InitFlat == AIdle /\ FInit /\ UIdle /\ HIdle /\ SIdle /\ CIdle
NextFlat == Parse
SpecFlat == InitFlat /\ [][NextFlat]_vars

(***************************************************************************)
(* Properties of the flat-table records                                    *)
(***************************************************************************)
\* the rows of FlatRowPool that the loop does not skip, by their order id
EmittedOrderIds == {"A1", "A4", "A5"}

\* the order ids of the records / of the rows, in order
RECURSIVE OrderIdsOf(_)
OrderIdsOf(list) ==
    IF list = <<>> THEN <<>> ELSE <<list[1].order_id>> \o OrderIdsOf(Tail(list))

RECURSIVE EmittedRowIds(_)
EmittedRowIds(rows) ==
    IF rows = <<>> THEN <<>>
    ELSE (IF rows[1][6] \in EmittedOrderIds THEN <<Some(rows[1][6])>> ELSE <<>>)
         \o EmittedRowIds(Tail(rows))

\* C11: every record of the flat-table path has quantity > 0 and side BUY or
\* SELL; a row with an empty symbol, a side that starts with neither B nor S,
\* a quantity or a price that is no number, or a quantity whose absolute value
\* truncates to 0 is skipped and the rows after it are still parsed: the
\* records are those of the other rows, one each, in the order of the rows.
C11_FlatRecordsValid ==
    calls # <<>> =>
        LET out == LastCall.outcome
        IN  /\ out.kind = "returned"
            /\ \A k \in 1..Len(out.trades) :
                   /\ out.trades[k].quantity \in Nat \ {0}
                   /\ out.trades[k].side \in {"BUY", "SELL"}
                   /\ ~IsStatementRecord(out.trades[k])
            /\ OrderIdsOf(out.trades) = EmittedRowIds(Tail(document))

\* a row with quantity 0.5 was skipped and the row after it, with quantity -5,
\* gave a SELL of 5
C11_Witness ==
    /\ calls # <<>>
    /\ Len(document) = 4
    /\ document[2] = FlatTimedRow
    /\ document[3] = FlatFractionRow
    /\ document[4] = FlatNegativeQuantityRow
    /\ Len(calls[1].outcome.trades) = 2
    /\ calls[1].outcome.trades[2].side = "SELL"
    /\ calls[1].outcome.trades[2].quantity = 5

\* C12 (as claimed): every record returned by parse_tradebook_csv has
\* price >= 0.
C12_PriceNonNegative ==
    \A i \in 1..Len(calls) :
        \A k \in 1..Len(calls[i].outcome.trades) : calls[i].outcome.trades[k].price >= 0

(***************************************************************************)
(* Inputs of the statement scanner: a header row and at most                *)
(* MaxStatementRows rows under it                                           *)
(***************************************************************************)
MaxStatementRows == 3

\* a header whose symbol column is not the first one, and without date columns
StatementSidewaysHeaderRow == <<"Quantity", "Scrip Name", "Buy Price", "Sell Price">>
\* a data row for it
StatementSidewaysRow == <<"5", "X 100 PE", "10", "12">>
\* a valid buy date and a sell date that does not parse
StatementHalfDatedRow == <<"X 100 CE", "5", "2024-01-02", "10", "-", "12">>
\* the same, with an expiry in the symbol
StatementHalfDatedExpiryRow == <<"X 25 JAN 24 100 CE", "5", "2024-01-02", "10", "", "12">>
\* the sell date before the buy date
StatementBackDatedRow == <<"X 100 CE", "5", "2024-01-03", "10", "2024-01-02", "12">>
\* no dates, and an expiry in the symbol
StatementExpiryRow == <<"X 25 JAN 24 100 CE", "5", "", "10", "", "12">>
\* a totals line: the word in the first cell, nothing in the second
StatementTotalRow == <<"Total", "", "50", "60">>
\* a quantity of 0
StatementZeroRow == <<"X 100 CE", "0.5", "2024-01-02", "10", "2024-01-03", "12">>

StatementHeaderPool == {StatementHeaderRow, StatementSidewaysHeaderRow}

StatementRowPool ==
    {StatementHeaderRow, StatementSidewaysRow, StatementDatedRow, StatementUndatedRow,
     StatementHalfDatedRow, StatementHalfDatedExpiryRow, StatementBackDatedRow,
     StatementExpiryRow, StatementTotalRow, StatementZeroRow, EmptyLine}

SInit ==
    /\ \E h \in StatementHeaderPool : \E n \in 0..MaxStatementRows :
           \E f \in [1..n -> StatementRowPool] : document = <<h>> \o f
    /\ current_date = CHOOSE d \in Days : \A e \in Days : d <= e
    /\ calls = <<>>
    /\ scan = IdleScan

(***************************************************************************)
(* _parse_realized_statement_csv(content), step by step.  scan.pc = "seek" *)
(* is the top of the outer loop, scan.pc = "read" the top of the inner one. *)
(* Indexes count from 1.                                                    *)
(***************************************************************************)
\* the call: rows, trades = [], row_index = 0
BeginScan ==
    /\ scan.pc = "idle"
    /\ scan' = [IdleScan EXCEPT !.pc = "seek", !.rows = SafeRows(document),
                                !.row_index = 1, !.last = "begin"]
    /\ UNCHANGED <<avars, ivars, uvars, hvars, cvars>>

\* one iteration of the outer loop up to the inner loop: the row is passed over
\* unless it has the four columns, else the block under it is entered
SeekHeader ==
    /\ scan.pc = "seek"
    /\ scan.row_index <= Len(scan.rows)
    /\ LET Under(hd) ==
               IF ~hd.is_header
               THEN [scan EXCEPT !.row_index = @ + 1, !.last = "not_header", !.emitted = 0]
               ELSE [scan EXCEPT !.pc = "read", !.header_index = scan.row_index,
                                 !.data_index = scan.row_index + 1,
                                 !.last = "header", !.emitted = 0]
       IN  scan' = Under(StatementHeader(scan.rows[scan.row_index]))
    /\ UNCHANGED <<avars, ivars, uvars, hvars, cvars>>

\* a variant of ReadRow: only the first record of a row is appended
ReadRow_BuyOnly ==
    /\ scan.pc = "read"
    /\ scan.data_index <= Len(scan.rows)
    /\ LET Step(r) ==
               IF r.kind = "break"
               THEN [scan EXCEPT !.pc = "seek", !.row_index = scan.data_index,
                                 !.last = "break", !.emitted = 0,
                                 !.examined = Append(@, scan.data_index)]
               ELSE IF r.kind = "skip"
               THEN [scan EXCEPT !.data_index = @ + 1, !.last = "skip", !.emitted = 0,
                                 !.examined = Append(@, scan.data_index)]
               ELSE [scan EXCEPT !.data_index = @ + 1, !.trades = @ \o <<r.trades[1]>>,
                                 !.last = "trades", !.emitted = 1,
                                 !.examined = Append(@, scan.data_index)]
       IN  scan' = Step(StatementRow(scan.rows[scan.header_index],
                                     StatementHeader(scan.rows[scan.header_index]),
                                     scan.rows[scan.data_index], current_date))
    /\ UNCHANGED <<avars, ivars, uvars, hvars, cvars>>

\* a variant of ReadRow: after a `break` the outer loop starts at the header
\* again (row_index is not moved to data_index)
ReadRow_StaysAtHeader ==
    /\ scan.pc = "read"
    /\ scan.data_index <= Len(scan.rows)
    /\ LET Step(r) ==
               IF r.kind = "break"
               THEN [scan EXCEPT !.pc = "seek",
                                 !.last = "break", !.emitted = 0,
                                 !.examined = Append(@, scan.data_index)]
               ELSE IF r.kind = "skip"
               THEN [scan EXCEPT !.data_index = @ + 1, !.last = "skip", !.emitted = 0,
                                 !.examined = Append(@, scan.data_index)]
               ELSE [scan EXCEPT !.data_index = @ + 1, !.trades = @ \o r.trades,
                                 !.last = "trades", !.emitted = Len(r.trades),
                                 !.examined = Append(@, scan.data_index)]
       IN  scan' = Step(StatementRow(scan.rows[scan.header_index],
                                     StatementHeader(scan.rows[scan.header_index]),
                                     scan.rows[scan.data_index], current_date))
    /\ UNCHANGED <<avars, ivars, uvars, hvars, cvars>>

\* one iteration of the inner loop: `break` (and row_index = data_index after
\* the loop), `continue`, or the two records appended
ReadRow ==
    /\ scan.pc = "read"
    /\ scan.data_index <= Len(scan.rows)
    /\ LET Step(r) ==
               IF r.kind = "break"
               THEN [scan EXCEPT !.pc = "seek", !.row_index = scan.data_index,
                                 !.last = "break", !.emitted = 0,
                                 !.examined = Append(@, scan.data_index)]
               ELSE IF r.kind = "skip"
               THEN [scan EXCEPT !.data_index = @ + 1, !.last = "skip", !.emitted = 0,
                                 !.examined = Append(@, scan.data_index)]
               ELSE [scan EXCEPT !.data_index = @ + 1, !.trades = @ \o r.trades,
                                 !.last = "trades", !.emitted = Len(r.trades),
                                 !.examined = Append(@, scan.data_index)]
       IN  scan' = Step(StatementRow(scan.rows[scan.header_index],
                                     StatementHeader(scan.rows[scan.header_index]),
                                     scan.rows[scan.data_index], current_date))
    /\ UNCHANGED <<avars, ivars, uvars, hvars, cvars>>

\* the inner loop runs out of rows; row_index = data_index
EndBlock ==
    /\ scan.pc = "read"
    /\ scan.data_index > Len(scan.rows)
    /\ scan' = [scan EXCEPT !.pc = "seek", !.row_index = scan.data_index,
                            !.last = "end_of_rows", !.emitted = 0]
    /\ UNCHANGED <<avars, ivars, uvars, hvars, cvars>>

\* the outer loop runs out of rows; return trades
EndScan ==
    /\ scan.pc = "seek"
    /\ scan.row_index > Len(scan.rows)
    /\ scan' = [scan EXCEPT !.pc = "done", !.last = "return", !.emitted = 0]
    /\ UNCHANGED <<avars, ivars, uvars, hvars, cvars>>

InitStatement == AIdle /\ SInit /\ UIdle /\ HIdle /\ CIdle

NextStatement == BeginScan \/ SeekHeader \/ ReadRow \/ EndBlock \/ EndScan

SpecStatement == InitStatement /\ [][NextStatement]_vars

\* the steps return what the function ParseRealizedStatementCsv computes
ScanReturnsStatementTrades ==
    scan.pc = "done" => scan.trades = ParseRealizedStatementCsv(document, current_date)

(***************************************************************************)
(* Properties of the statement scanner                                      *)
(***************************************************************************)
\* the header row the inner loop reads under
ScanHeaderRow == scan.rows[scan.header_index]

\* the row a step of the inner loop has just read
ScanRowRead ==
    IF scan.last = "break" THEN scan.rows[scan.row_index]
    ELSE scan.rows[scan.data_index - 1]

\* a data row that qualifies under header_row: not a terminator, a symbol that
\* is no repeated header or section label, three numbers, a quantity of at
\* least one unit
StatementRowQualifies(header_row, data_row) ==
    LET Under(h, symbol_token) ==
            /\ ~BlankRow(data_row)
            /\ symbol_token # ""
            /\ symbol_token \notin {"scripname", "futures", "options"} \cup StatementStopTokens
            /\ ParseNumeric(Cell(data_row, h.quantity_idx)) # None
            /\ ParseNumeric(Cell(data_row, h.buy_price_idx)) # None
            /\ ParseNumeric(Cell(data_row, h.sell_price_idx)) # None
            /\ Abs(Val(ParseNumeric(Cell(data_row, h.quantity_idx)))) >= Unit
        At(h) == Cell(data_row, h.symbol_idx) # ""
                 /\ Under(h, NormalizeCol(Cell(data_row, h.symbol_idx)))
    IN  At(StatementHeader(header_row).idx)

\* the BUY and SELL records b and s are the pair of data_row under header_row
IsStatementPair(header_row, data_row, b, s) ==
    LET Dated(buy_parsed, sell_parsed) ==
            (buy_parsed # None /\ sell_parsed # None)
            => /\ b.traded_at = Combine(Val(buy_parsed), 9, 15)
               /\ s.traded_at = IF Combine(Val(sell_parsed), 15, 15) > b.traded_at
                                THEN Combine(Val(sell_parsed), 15, 15)
                                ELSE b.traded_at + 1
        At(h) ==
            /\ b.side = "BUY"
            /\ s.side = "SELL"
            /\ b.price = Val(ParseNumeric(Cell(data_row, h.buy_price_idx)))
            /\ s.price = Val(ParseNumeric(Cell(data_row, h.sell_price_idx)))
            /\ b.symbol = Cell(data_row, h.symbol_idx)
            /\ s.symbol = b.symbol
            /\ s.quantity = b.quantity
            /\ s.strike = b.strike
            /\ s.option_type = b.option_type
            /\ s.expiry = b.expiry
            /\ s.traded_at > b.traded_at
            /\ b.traded_at % MinutesPerDay = 9 * 60 + 15
            /\ (s.traded_at % MinutesPerDay = 15 * 60 + 15 \/ s.traded_at = b.traded_at + 1)
            /\ Dated(ParseStatementDate(Cell(data_row, h.buy_date_idx)),
                     ParseStatementDate(Cell(data_row, h.sell_date_idx)))
    IN  At(StatementHeader(header_row).idx)

\* C13: a step of the inner loop on a qualifying data row appends exactly two
\* records to the list, a BUY at the row's buy price and then a SELL at the
\* row's sell price, of the same symbol, quantity, strike, option type and
\* expiry, the SELL strictly later than the BUY (at 15:15 of the sell date,
\* or one minute after the BUY where that is not later than the 09:15 of the
\* buy date); a step on any other row leaves the list as it is.
C13_StatementRowEmitsPair ==
    [][(scan.pc = "read" /\ scan.data_index <= Len(scan.rows))
       => IF StatementRowQualifies(ScanHeaderRow, scan.rows[scan.data_index])
          THEN /\ Len(scan'.trades) = Len(scan.trades) + 2
               /\ SubSeq(scan'.trades, 1, Len(scan.trades)) = scan.trades
               /\ IsStatementPair(ScanHeaderRow, scan.rows[scan.data_index],
                                  scan'.trades[Len(scan.trades) + 1],
                                  scan'.trades[Len(scan.trades) + 2])
          ELSE scan'.trades = scan.trades]_vars

\* a row sold before it was bought has been read: its SELL is one minute after
\* its BUY
C13_Witness ==
    /\ scan.last = "trades"
    /\ ScanRowRead = StatementBackDatedRow
    /\ scan.emitted = 2
    /\ scan.trades[Len(scan.trades)].side = "SELL"
    /\ scan.trades[Len(scan.trades)].traded_at
           = scan.trades[Len(scan.trades) - 1].traded_at + 1

\* the date a cell of a date column stands for, where the date to fall back on
\* is the expiry in the symbol or else today
DateOrFallback(cell, symbol, today) ==
    LET Pick(parsed, expiry) ==
            IF parsed # None THEN Val(parsed)
            ELSE IF expiry # None THEN Val(expiry)
            ELSE today
    IN  Pick(ParseStatementDate(cell), ExtractExpiryFromSymbol(symbol))

\* C14 (as claimed): the two records of a statement row carry, each for itself,
\* the date of its own date cell, or, where the column is absent or the cell
\* does not parse, the expiry inferred from the symbol, or else the current
\* date: the BUY is at 09:15 of that buy date and the SELL at 15:15 of that
\* sell date (one minute after the BUY where that is not later).
C14_DatesDefaultIndependently ==
    scan.last = "trades" =>
        LET At(h, row, b, s) ==
                LET buy_date == DateOrFallback(Cell(row, h.buy_date_idx),
                                               Cell(row, h.symbol_idx), current_date)
                    sell_date == DateOrFallback(Cell(row, h.sell_date_idx),
                                                Cell(row, h.symbol_idx), current_date)
                IN  /\ b.traded_at = Combine(buy_date, 9, 15)
                    /\ s.traded_at = IF Combine(sell_date, 15, 15) > b.traded_at
                                     THEN Combine(sell_date, 15, 15)
                                     ELSE b.traded_at + 1
        IN  At(StatementHeader(ScanHeaderRow).idx, ScanRowRead,
               scan.trades[Len(scan.trades) - 1], scan.trades[Len(scan.trades)])

\* a row that ends a block: blank, or a stop token in its first cell
StatementTerminator(row) ==
    BlankRow(row) \/ NormalizeCol(Cell(row, 1)) \in StatementStopTokens

\* C15 (as claimed): while the scanner reads the rows under a header, none of
\* the rows it has read under that header is blank or has a stop token in its
\* first cell: such a row has ended the block, and no later row is read, nor
\* any trade emitted, until another header row is found; whichever column of
\* the header holds the symbol.
C15_TerminatorEndsBlock ==
    scan.pc = "read" =>
        \A k \in (scan.header_index + 1)..(scan.data_index - 1) :
            ~StatementTerminator(scan.rows[k])

(***************************************************************************)
(* calculate_trade_analytics on rows of every kind: valid trades, a side in *)
(* lower case, rows the loop passes over, an instrument without strike and  *)
(* option type                                                              *)
(***************************************************************************)
MaxMixedTrades == 3

\* no strike, no option type stored, and none to be read from the symbol
InstU == Instrument("X", None, None, None)

MixedPool ==
    {Trade(InstA, "BUY", q, 100, 10) : q \in Quantities}
    \cup {Trade(InstA, "SELL", q, 112, 20) : q \in Quantities}
    \cup {Trade(InstA, "sell", 1, 106, 10),
          Trade(InstC, "BUY", 1, 100, 20),
          Trade(InstU, "BUY", 1, 100, 10),
          Trade(InstU, "SELL", 1, 112, 20),
          Trade(InstA, "HOLD", 1, 100, 10),
          Trade(InstA, "BUY", 0, 100, 20),
          Trade(InstA, "SELL", -1, 112, 10)}

AInitMixed ==
    /\ \E n \in 0..MaxMixedTrades : \E f \in [1..n -> MixedPool] :
           trades = [i \in 1..n |-> WithId(f[i], i)]
    /\ pc = "start"
    /\ ordered_trades = <<>>
    /\ idx = 0
    /\ open_longs = <<>>
    /\ open_shorts = <<>>
    /\ closed_positions = <<>>
    /\ strike_quantity = <<>>
    /\ snapshot = <<>>
    /\ match_log = <<>>
    /\ opened_log = <<>>

InitMixed == AInitMixed /\ IIdle /\ UIdle /\ HIdle /\ SIdle /\ CIdle

NextMixed == ReturnEmpty \/ SortTrades \/ ProcessTrade \/ Aggregate

SpecMixed == InitMixed /\ [][NextMixed]_vars

\* a trade without a stored CE or PE whose symbol yields no option type under
\* Instrument Inference
Uninferable(t) ==
    /\ t.option_type = None \/ Upper(Val(t.option_type)) \notin {"CE", "PE"}
    /\ ExtractOptionMeta(t.symbol).option_type = None

\* C16 (as claimed): a trade with no stored option type and none to be inferred
\* from its symbol is filed under a key of option type UNKNOWN, both when it
\* closes a lot and when it opens one, and the positions it closes carry
\* UNKNOWN into ce_vs_pe.
C16_UninferableIsUnknown ==
    /\ \A i \in 1..Len(match_log) :
           Uninferable(TradeById(match_log[i].trade_id))
           => match_log[i].key[3] = "UNKNOWN" /\ closed_positions[i].option_type = "UNKNOWN"
    /\ \A i \in 1..Len(opened_log) :
           Uninferable(TradeById(opened_log[i].src)) => opened_log[i].key[3] = "UNKNOWN"
    /\ (pc = "done" /\ \E i \in 1..Len(match_log) : Uninferable(TradeById(match_log[i].trade_id)))
       => \E j \in 1..Len(snapshot.ce_vs_pe) : snapshot.ce_vs_pe[j].option_type = "UNKNOWN"

(***************************************************************************)
(* calculate_trade_analytics on up to MaxStrikeTrades trades of more than   *)
(* TopStrikes strikes                                                       *)
(***************************************************************************)
MaxStrikeTrades == 12

\* the first rows choose their quantity; the second row may also repeat the
\* strike of the first, have no strike, or be a row the loop passes over
ChoosingRows == 4

StrikeInst(i) == Instrument("XCE", Some(i * Unit), Some("CE"), None)

StrikeTradeOptions(i) ==
    (IF i <= ChoosingRows
     THEN {Trade(StrikeInst(i), "BUY", q, 100, 10) : q \in Quantities}
     ELSE {Trade(StrikeInst(i), "BUY", 1 + (i % 2), 100, 10)})
    \cup (IF i = 2
          THEN {Trade(StrikeInst(1), "SELL", 1, 112, 10),
                Trade(InstU, "BUY", 2, 100, 10),
                Trade(StrikeInst(2), "HOLD", 2, 100, 10)}
          ELSE {})

\* the lists of n rows, row i one of StrikeTradeOptions(i) with primary key i
RECURSIVE StrikeLists(_)
StrikeLists(n) ==
    IF n = 0 THEN {<<>>}
    ELSE {Append(s, WithId(t, n)) : s \in StrikeLists(n - 1), t \in StrikeTradeOptions(n)}

AInitStrikes ==
    /\ \E n \in 0..MaxStrikeTrades : trades \in StrikeLists(n)
    /\ pc = "start"
    /\ ordered_trades = <<>>
    /\ idx = 0
    /\ open_longs = <<>>
    /\ open_shorts = <<>>
    /\ closed_positions = <<>>
    /\ strike_quantity = <<>>
    /\ snapshot = <<>>
    /\ match_log = <<>>
    /\ opened_log = <<>>

InitStrikes == AInitStrikes /\ IIdle /\ UIdle /\ HIdle /\ SIdle /\ CIdle

NextStrikes == ReturnEmpty \/ SortTrades \/ ProcessTrade \/ Aggregate

SpecStrikes == InitStrikes /\ [][NextStrikes]_vars

\* the strike strings of the valid trades of a list, "UNKNOWN" left out
StrikesOf(list) ==
    {StrikeKey(list[i].strike) : i \in {j \in 1..Len(list) : ValidTrade(list[j])}}
    \ {"UNKNOWN"}

\* the sum of the quantities of the valid trades of a list with the strike string
StrikeTotal(list, strike_key) ==
    LET P(t) == ValidTrade(t) /\ StrikeKey(t.strike) = strike_key
        V(t) == t.quantity
    IN  SumWhere(list, P, V)

\* C17: most_traded_strike has one entry for each of the strike strings of the
\* valid trades, up to 10 of them, none for "UNKNOWN" (trades without a
\* strike); the quantity of an entry is the sum of the full quantities of all
\* valid trades of that strike, BUY or SELL, whatever they opened or closed;
\* the quantities do not increase along the list.
C17_MostTradedStrike ==
    pc = "done" /\ trades # <<>> =>
        LET Ranked(ranking, strikes) ==
                /\ Len(ranking) = Min(TopStrikes, Cardinality(strikes))
                /\ \A j \in 1..Len(ranking) :
                       /\ ranking[j].strike \in strikes
                       /\ ranking[j].quantity = StrikeTotal(trades, ranking[j].strike)
                       /\ j > 1 => ranking[j - 1].quantity >= ranking[j].quantity
                       /\ \A k \in 1..(j - 1) : ranking[k].strike # ranking[j].strike
        IN  Ranked(snapshot.most_traded_strike, StrikesOf(trades))

\* eleven strikes have been traded, one of them by a BUY and a SELL, and ten
\* are reported
C17_Witness ==
    /\ pc = "done"
    /\ Cardinality(StrikesOf(trades)) > TopStrikes
    /\ Len(snapshot.most_traded_strike) = TopStrikes
    /\ Len(closed_positions) = 1
    /\ snapshot.most_traded_strike[1].quantity = 3

\* C18: an iteration of the loop on a trade whose side, upper-cased, is neither
\* BUY nor SELL, or whose quantity is 0 or less, leaves the long and the short
\* queues, the closed positions and the strike totals as they were.
C18_InvalidTradeIgnored ==
    [][(pc = "loop" /\ idx <= Len(ordered_trades) /\ ~ValidTrade(ordered_trades[idx]))
       => UNCHANGED <<open_longs, open_shorts, closed_positions, strike_quantity>>]_vars

\* a row of quantity -1 has been passed over while a lot is open
C18_Witness ==
    /\ pc = "loop"
    /\ idx = 3
    /\ ordered_trades[2].quantity < 0
    /\ ValidTrade(ordered_trades[1])
    /\ opened_log # <<>>
    /\ \E k \in DOMAIN open_longs : open_longs[k] # <<>>
    /\ Len(strike_quantity) = 1

(***************************************************************************)
(* get_trade_analytics asked twice: the second request finds the same rows  *)
(* in the table, handed over in any order                                   *)
(***************************************************************************)
MaxRepeatTrades == 3

\* two purchases of the same minute at different prices, so that the order of
\* the rows decides which lot a sale closes
RepeatPool ==
    {Trade(InstA, "BUY", 1, 100 * Unit, 10),
     Trade(InstA, "BUY", 1, 106 * Unit, 10),
     Trade(InstA, "SELL", 1, 112 * Unit, 20),
     Trade(InstA, "SELL", 2, 112 * Unit, 10),
     Trade(InstU, "BUY", 1, 100 * Unit, 10),
     Trade(InstA, "HOLD", 1, 100 * Unit, 10)}

AInitRepeat ==
    /\ \E n \in 0..MaxRepeatTrades : \E f \in [1..n -> RepeatPool] :
           trades = [i \in 1..n |-> WithId(f[i], i)]
    /\ pc = "start"
    /\ ordered_trades = <<>>
    /\ idx = 0
    /\ open_longs = <<>>
    /\ open_shorts = <<>>
    /\ closed_positions = <<>>
    /\ strike_quantity = <<>>
    /\ snapshot = <<>>
    /\ match_log = <<>>
    /\ opened_log = <<>>

\* the orders in which a list of n rows can be handed over
Orders(n) == {p \in [1..n -> 1..n] : \A i \in 1..n : \E j \in 1..n : p[j] = i}

\* a variant of CallAgain: the collections of the first call are still there
CallAgain_KeepsCollections ==
    /\ pc = "done"
    /\ returned = <<>>
    /\ returned' = <<snapshot>>
    /\ \E p \in Orders(Len(trades)) : trades' = [i \in 1..Len(trades) |-> trades[p[i]]]
    /\ pc' = "start"
    /\ ordered_trades' = <<>>
    /\ idx' = 0
    /\ snapshot' = <<>>
    /\ UNCHANGED <<open_longs, open_shorts, closed_positions, strike_quantity,
                   match_log, opened_log>>
    /\ UNCHANGED <<ivars, uvars, hvars, svars>>

\* the second call, on the same rows in some order: a new frame, in which the
\* four collections are created empty
CallAgain ==
    /\ pc = "done"
    /\ returned = <<>>
    /\ returned' = <<snapshot>>
    /\ \E p \in Orders(Len(trades)) : trades' = [i \in 1..Len(trades) |-> trades[p[i]]]
    /\ pc' = "start"
    /\ ordered_trades' = <<>>
    /\ idx' = 0
    /\ open_longs' = <<>>
    /\ open_shorts' = <<>>
    /\ closed_positions' = <<>>
    /\ strike_quantity' = <<>>
    /\ snapshot' = <<>>
    /\ match_log' = <<>>
    /\ opened_log' = <<>>
    /\ UNCHANGED <<ivars, uvars, hvars, svars>>

InitRepeat == AInitRepeat /\ IIdle /\ UIdle /\ HIdle /\ SIdle /\ CIdle

NextRepeat == ReturnEmpty \/ SortTrades \/ ProcessTrade \/ Aggregate \/ CallAgain

SpecRepeat == InitRepeat /\ [][NextRepeat]_vars

\* the second call has returned what the first returned
SameSnapshotAgain ==
    (pc = "done" /\ returned # <<>>) => snapshot = returned[1]

\* a step of a call leaves the list it was given as it is
InputNotModified ==
    (pc \in {"start", "loop"}) => UNCHANGED trades

\* C19: the second call of calculate_trade_analytics, on the same rows handed
\* over in any order (the ids are distinct), returns the snapshot the first
\* call returned: nothing of the first call survives into the second; and no
\* step of a call changes the list it was given.
C19_PureFunction == []SameSnapshotAgain /\ [][InputNotModified]_vars

\* the second call has returned, on a list in another order than the first,
\* whose two purchases of one minute differ in price, and a lot was closed
C19_Witness ==
    /\ pc = "done"
    /\ returned # <<>>
    /\ Len(trades) = 3
    /\ trades[1].id > trades[2].id
    /\ trades[1].traded_at = trades[2].traded_at
    /\ trades[1].price # trades[2].price
    /\ trades[1].side = "BUY" /\ trades[2].side = "BUY"
    /\ Len(closed_positions) = 1
    /\ snapshot.summary.total_profit_loss # 0

\* C20: at every point of the matching loop, no instrument key has both a long
\* lot and a short lot open, and every lot in a queue has a quantity above 0.
C20_NeverLongAndShort ==
    /\ \A k \in DOMAIN open_longs \cup DOMAIN open_shorts :
           Get(open_longs, k, <<>>) = <<>> \/ Get(open_shorts, k, <<>>) = <<>>
    /\ \A k \in DOMAIN open_longs :
           \A i \in 1..Len(open_longs[k]) : open_longs[k][i].quantity > 0
    /\ \A k \in DOMAIN open_shorts :
           \A i \in 1..Len(open_shorts[k]) : open_shorts[k][i].quantity > 0

\* a lot of 2 has been closed in part and its rest of 1 is still open, its
\* key's short queue is empty, and another key is short
C20_Witness ==
    /\ pc = "loop"
    /\ match_log # <<>>
    /\ \E k \in DOMAIN open_longs :
           /\ open_longs[k] # <<>>
           /\ open_longs[k][1].quantity = 1
           /\ \E i \in 1..Len(opened_log) :
                  opened_log[i].src = open_longs[k][1].src /\ opened_log[i].quantity = 2
           /\ Get(open_shorts, k, <<>>) = <<>>
    /\ \E k \in DOMAIN open_shorts : open_shorts[k] # <<>>

(***************************************************************************)
(* Termination of the statement scanner.  The function is sequential code   *)
(* that nothing suspends: a step that can be taken is taken, which is       *)
(* WF_vars(NextStatement).  A step can be taken in every state but the one  *)
(* after the return (the guards of SeekHeader and EndScan, and of ReadRow    *)
(* and EndBlock, are complementary), so ENABLED <<NextStatement>>_vars is    *)
(* scan.pc # "done", and the fairness condition is written out with it:     *)
(* ENABLED of the row functions is beyond what TLC evaluates in the time.   *)
(***************************************************************************)
ScanRuns == []<>(scan.pc = "done") \/ []<><<NextStatement>>_vars

SpecStatementFair == SpecStatement /\ ScanRuns

\* the inner loop reads rows of ever greater index: no row is read twice
ExaminedOnce ==
    \A i \in 1..Len(scan.examined) : \A j \in 1..Len(scan.examined) :
        i < j => scan.examined[i] < scan.examined[j]

\* an iteration of the outer loop moves row_index forward: by one past a row
\* that is no header, else to the index the inner loop stopped at, which is
\* greater than the header's; an iteration of the inner loop moves data_index
\* forward by one or leaves the loop
ScanAdvances ==
    /\ (scan.pc = "seek" /\ scan'.pc = "seek") => scan'.row_index = scan.row_index + 1
    /\ (scan.pc = "seek" /\ scan'.pc = "read")
       => scan'.row_index = scan.row_index /\ scan'.data_index = scan.row_index + 1
    /\ (scan.pc = "read" /\ scan'.pc = "read") => scan'.data_index = scan.data_index + 1
    /\ (scan.pc = "read" /\ scan'.pc = "seek")
       => scan'.row_index = scan.data_index /\ scan'.row_index > scan.row_index
    /\ (scan.pc = "done") => scan'.pc = "done"

\* C22: _parse_realized_statement_csv returns on every document; on the way
\* every iteration of the outer loop increases row_index, every iteration of
\* the inner loop increases data_index or breaks, and no row is read as a data
\* row twice.
C22_ScanTerminates ==
    /\ <>(scan.pc = "done")
    /\ []ExaminedOnce
    /\ [][ScanAdvances]_vars

\* the scan has returned after two blocks: the blank row that ended the first
\* was read once as a data row, the second header has no rows under it
C22_Witness ==
    /\ scan.pc = "done"
    /\ Len(scan.rows) = 4
    /\ scan.examined = <<2, 3>>
    /\ scan.rows[3] = EmptyLine
    /\ scan.rows[4] = StatementHeaderRow
    /\ Len(scan.trades) = 2

(***************************************************************************)
(* One statement file uploaded into an empty trades table, then analysed   *)
(***************************************************************************)
MaxRoundRows == 3

\* two lots of the key of StatementDatedRow whose days interleave with it
StatementLaterRow == <<"X 100 CE", "3", "2024-01-03", "11", "2024-01-04", "9">>
\* a row that differs from StatementDatedRow in its sale only
StatementResoldRow == <<"X 100 CE", "5", "2024-01-02", "10", "2024-01-04", "13">>

RoundRowPool ==
    {StatementDatedRow, StatementLaterRow, StatementResoldRow, StatementBackDatedRow,
     StatementUndatedRow, StatementExpiryRow, StatementZeroRow}

\* stmt = insert(Trade).values(parsed_rows).on_conflict_do_nothing(trade_hash),
\* executed on table: the rows get the next values of the id sequence, which a
\* row that is passed over uses up as well
RECURSIVE InsertOnConflictDoNothing(_, _, _)
InsertOnConflictDoNothing(parsed_rows, table, next_id) ==
    IF parsed_rows = <<>> THEN table
    ELSE IF HashTaken(Head(parsed_rows).trade_hash, table)
         THEN InsertOnConflictDoNothing(Tail(parsed_rows), table, next_id + 1)
         ELSE InsertOnConflictDoNothing(
                  Tail(parsed_rows),
                  Append(table, [id |-> next_id,
                                 trade_hash |-> Head(parsed_rows).trade_hash,
                                 symbol |-> Head(parsed_rows).symbol,
                                 strike |-> Head(parsed_rows).strike,
                                 option_type |-> Head(parsed_rows).option_type,
                                 expiry |-> Head(parsed_rows).expiry,
                                 side |-> Head(parsed_rows).side,
                                 quantity |-> Head(parsed_rows).quantity,
                                 price |-> Head(parsed_rows).price,
                                 traded_at |-> Head(parsed_rows).traded_at]),
                  next_id + 1)

\* db.query(Trade).order_by(Trade.traded_at.asc(), Trade.id.asc()).all()
QueryTrades(table) == SortedTrades([i \in 1..Len(table) |-> WithId(table[i], table[i].id)])

IInitRound ==
    /\ \E n \in 0..MaxRoundRows : \E f \in [1..n -> RoundRowPool] :
           document = <<StatementHeaderRow>> \o f
    /\ current_date = CHOOSE d \in Days : \A e \in Days : d <= e
    /\ calls = <<>>

\* upload_tradebook on a .csv file holding the document, the trades table
\* empty and no other request in flight: the parse, the insert and the commit
UploadStatement ==
    /\ pc = "idle"
    /\ calls = <<>>
    /\ \E outcome \in {ParseTradebookCsv(document, current_date)} :
           /\ calls' = <<[day |-> current_date, outcome |-> outcome]>>
           /\ ledger' = IF outcome.kind = "returned"
                        THEN InsertOnConflictDoNothing(outcome.trades, ledger, 1)
                        ELSE ledger
    /\ UNCHANGED <<document, current_date, uploads>>
    /\ UNCHANGED <<avars, hvars, svars, cvars>>

\* get_trade_analytics: the table is read and handed to calculate_trade_analytics
GetTradeAnalytics ==
    /\ pc = "idle"
    /\ calls # <<>>
    /\ trades' = QueryTrades(ledger)
    /\ pc' = "start"
    /\ UNCHANGED <<ordered_trades, idx, open_longs, open_shorts, closed_positions,
                   strike_quantity, snapshot, match_log, opened_log>>
    /\ UNCHANGED <<ivars, uvars, hvars, svars, cvars>>

InitRound == AIdle /\ IInitRound /\ UIdle /\ HIdle /\ SIdle /\ CIdle

NextRound ==
    \/ UploadStatement
    \/ GetTradeAnalytics
    \/ ReturnEmpty
    \/ SortTrades
    \/ ProcessTrade
    \/ Aggregate

SpecRound == InitRound /\ [][NextRound]_vars

\* the records parse_tradebook_csv returned for the uploaded file: the BUY and
\* the SELL of each qualifying row, in the order of the rows
RoundRecords == calls[1].outcome.trades

\* the sum over the qualifying rows of (sell price - buy price) x quantity
RECURSIVE StatementPnl(_)
StatementPnl(records) ==
    IF Len(records) < 2 THEN 0
    ELSE (records[2].price - records[1].price) * records[1].quantity
         + StatementPnl(Tail(Tail(records)))

\* no lot is open under any key
NoOpenLot ==
    /\ \A k \in DOMAIN open_longs : open_longs[k] = <<>>
    /\ \A k \in DOMAIN open_shorts : open_shorts[k] = <<>>

RoundDone == pc = "done" /\ calls # <<>>

\* C21 (as claimed): after one realized-statement file is uploaded into an
\* empty table and the analytics are run, no lot is open under any instrument
\* key and the total realized pnl is the sum over the qualifying rows of the
\* statement of (sell price - buy price) x quantity, however many rows share
\* an instrument and however their dates interleave.
C21_StatementRoundCloses ==
    RoundDone =>
        /\ NoOpenLot
        /\ snapshot.summary.total_profit_loss = Round2(StatementPnl(RoundRecords))

\* the same, for the files whose records all differ in their trade_hash
RoundHashesDistinct ==
    \A i, j \in 1..Len(RoundRecords) :
        i # j => RoundRecords[i].trade_hash # RoundRecords[j].trade_hash

StatementRoundClosesUnlessDeduplicated ==
    (RoundDone /\ RoundHashesDistinct) =>
        /\ NoOpenLot
        /\ snapshot.summary.total_profit_loss = Round2(StatementPnl(RoundRecords))
====
